---- MODULE Spec2Model ----
(***************************************************************************)
(* Telegram Saved Messages export: the interactive worker                  *)
(* (telegram_notion_gui.py, ExportWorker) and the batch entry point        *)
(* (telegram_to_notion.py, export_saved_messages) as one state machine.    *)
(* A run is one invocation of either entry point.  Messages are identified *)
(* by their position in the newest-first source (message.id is unique per  *)
(* source); source[i] is the kind of the i-th message the source yields.   *)
(***************************************************************************)
EXTENDS Integers, Sequences, FiniteSets, TLC

\* ------------------------------------------------------------------ bounds
MaxSrc == 3
MaxLimit == 2
MaxSkip == 2

\* ------------------------------------------------------------- value sets
Kinds == {"Text", "Photo"}
Formats == {"notion", "json", "csv", "markdown"}

\* Every kind _get_message_type / get_message_type can return.
AllKinds == {"Photo", "Video", "Document", "Audio", "Voice", "Sticker", "GIF",
             "Poll", "Location", "Contact", "Text", "Other"}
None == "None"

\* Failures telegram.sign_in can raise: the provider's cause, and which of the
\* fragments the handler looks for occur in str(e).lower().  The handler is
\* `except Exception`, so a failure that is no second-factor requirement and
\* whose description names a password (PHONE_PASSWORD_FLOOD) reaches it too.
SecondFactorWording == {"password", "2fa", "two-step"}
NoFile == [created |-> FALSE, header |-> "none"]
NoError == [cause |-> "none", wording |-> {}]
SignInErrors ==
    {[cause |-> "SESSION_PASSWORD_NEEDED", wording |-> {"two-step", "password"}],
     [cause |-> "PHONE_CODE_INVALID", wording |-> {}],
     [cause |-> "PHONE_PASSWORD_FLOOD", wording |-> {"password"}]}

\* The sources a run is given: every history of at most MaxSrc messages, and
\* the five-message history [T,T,P,T,T] of the end-to-end scenario.
ExampleSource == <<"Text", "Text", "Photo", "Text", "Text">>
Sources == UNION {[1..n -> Kinds] : n \in 0..MaxSrc} \cup {ExampleSource}

\* The filter settings the pipeline model draws from: a kind filter ({} = not
\* set) or any combination of the two media flags, with limit (0 = not set)
\* and skip.
TypeChoices == {{}, {"Text"}}
FilterChoices ==
    {f \in [types : TypeChoices, has_media : BOOLEAN, no_media : BOOLEAN,
            limit : 0..MaxLimit, skip : 0..MaxSkip] :
        f.types # {} => (~f.has_media /\ ~f.no_media)}

\* Which required settings the run is started with: all of them, or all but
\* the Telegram credentials (API id, API hash, phone), the Notion credentials
\* (token, database id), or the output path.
ConfigChoices == {"complete", "no_telegram", "no_notion", "no_output"}

VARIABLES
    entry,          \* "gui" (ExportWorker) or "cli" (export_saved_messages)
    config,         \* self.config and output_path / the environment
    source,         \* telegram.get_chat_history("me"), newest first
    filters,        \* self.filters / args: types, has_media, no_media, limit, skip
    format,         \* self.export_settings['format']
    dry_run,        \* args.dry_run
    yes,            \* args.yes
    save,           \* args.save is given
    pc,             \* position of the worker / batch coroutine
    cancelled,      \* self._is_cancelled
    auth_code,      \* self._auth_code
    auth_password,  \* self._auth_password
    sign_in_error,  \* the exception sign_in raised (e, line 181), if any
    codeDialog,     \* request_code signal: "none", "pending", "closed"
    pwdDialog,      \* request_password signal: "none", "pending", "closed"
    authState,      \* state of the authentication handshake
    pulled,         \* items the source iterator has yielded so far
    srcFailed,      \* the source iterator raised
    cur,            \* the loop variable `message` (0 = none)
    total_scanned,  \* total_scanned / total_fetched
    skipped,        \* skipped (batch only)
    messages,       \* the matched buffer
    tested,         \* items handed to _matches_filters / message_matches_filters
    idx,            \* export loop position (1-based) in reversed(messages)
    success_count,
    failed_count,
    inflight,       \* item whose sink write call is executing (0 = none)
    attempts,       \* items for which a sink write call was begun, in order
    written,        \* records the sink holds, in order
    errorEvents,    \* error.emit calls (batch: uncaught exception)
    finishedEvents, \* finished.emit calls (batch: final summary)
    finishedArgs,   \* arguments of the last finished.emit
    disconnects,    \* telegram.disconnect() calls (batch: the client's stop)
    codeRequests,   \* request_code.emit calls
    pwdRequests,    \* request_password.emit calls
    cancelSnap,     \* what the run had done when cancel() first set the flag
    output,         \* what the run did to the file at output_path
    progress,       \* progress.emit calls (batch: progress lines), in order
    save_file,      \* the file at args.save: earlier contents kept, lines added
    save_errors,    \* save_errors
    confirm,        \* the answer input() returned at the confirmation prompt
    start_enabled,  \* MainWindow.start_btn.isEnabled()
    cancel_enabled, \* MainWindow.cancel_btn.isEnabled()
    errorsHandled,  \* error signals of self.worker that on_error has handled
    finishedHandled,\* finished signals of self.worker that on_finished has handled
    orphans,        \* workers replaced in self.worker while still executing
    runs,           \* workers started so far
    arg_message,    \* the message a function is called with on its own
    arg_filters,    \* the filter settings it is called with
    result          \* what the worker's and the batch program's function returned

inputs == <<entry, config, source, filters, format, dry_run, yes, save>>
authv  == <<auth_code, auth_password, sign_in_error, codeDialog, pwdDialog,
            authState, codeRequests, pwdRequests>>
scanv  == <<pulled, srcFailed, cur, total_scanned, skipped, messages, tested>>
expv   == <<idx, success_count, failed_count, inflight, attempts, written>>
evv    == <<errorEvents, finishedEvents, finishedArgs, disconnects>>
winv   == <<start_enabled, cancel_enabled, errorsHandled, finishedHandled,
            orphans, runs>>
logv   == <<output, progress, save_file, save_errors, confirm>>
workerv == <<pc, cancelled, authv, scanv, expv, evv, cancelSnap, logv>>
purev  == <<arg_message, arg_filters, result>>
framev == <<winv, purev>>
vars   == <<inputs, workerv, framev>>

\* ---------------------------------------------------------------- helpers
Reverse(s) == [i \in 1..Len(s) |-> s[Len(s) + 1 - i]]
Take(n, s) == SubSeq(s, 1, IF n < Len(s) THEN n ELSE Len(s))
Drop(n, s) == SubSeq(s, (IF n < Len(s) THEN n ELSE Len(s)) + 1, Len(s))
IsPrefix(s, t) == Len(s) <= Len(t) /\ SubSeq(t, 1, Len(s)) = s

\* Mutant: the handler recognises the second-factor requirement by its cause.
HasSecondFactorWording_ByCause(e) ==
    e.cause = "SESSION_PASSWORD_NEEDED"

\* if "password" in str(e).lower() or "2fa" in ... or "two-step" in ...
HasSecondFactorWording(e) ==
    \/ "password" \in e.wording
    \/ "2fa" \in e.wording
    \/ "two-step" \in e.wording

\* Mutant: has_media takes precedence, and no_media is tested only without it.
MatchesFilters_FlagsExclusive(kind, f) ==
    IF f.types # {} /\ kind \notin f.types THEN FALSE
    ELSE IF f.has_media THEN kind \notin {"Text", "Other"}
    ELSE IF f.no_media /\ kind # "Text" THEN FALSE
    ELSE TRUE

\* _matches_filters / message_matches_filters on the kind-based checks, in the
\* order the code applies them.
MatchesFilters(kind, f) ==
    IF f.types # {} /\ kind \notin f.types THEN FALSE
    ELSE IF f.has_media /\ kind \in {"Text", "Other"} THEN FALSE
    ELSE IF f.no_media /\ kind # "Text" THEN FALSE
    ELSE TRUE

\* Mutant: the limit test is off by one (> for >=).
LimitReached_OffByOne(f, msgs) == f.limit # 0 /\ Len(msgs) > f.limit

\* if self.filters.get('limit') and len(messages) >= self.filters['limit']
LimitReached(f, msgs) == f.limit # 0 /\ Len(msgs) >= f.limit

\* ------------------------------------------------------------------- Init
\* ExportWorker.__init__ (and the locals _export starts with); the batch
\* entry point starts with the same counters and buffers.
FreshRun ==
    /\ cancelled = FALSE
    /\ auth_code = None
    /\ auth_password = None
    /\ sign_in_error = NoError
    /\ codeDialog = "none"
    /\ pwdDialog = "none"
    /\ authState = "Disconnected"
    /\ pulled = 0
    /\ srcFailed = FALSE
    /\ cur = 0
    /\ total_scanned = 0
    /\ skipped = 0
    /\ messages = <<>>
    /\ tested = <<>>
    /\ idx = 1
    /\ success_count = 0
    /\ failed_count = 0
    /\ inflight = 0
    /\ attempts = <<>>
    /\ written = <<>>
    /\ errorEvents = 0
    /\ finishedEvents = 0
    /\ finishedArgs = <<0, 0>>
    /\ disconnects = 0
    /\ codeRequests = 0
    /\ pwdRequests = 0
    /\ cancelSnap = [phase |-> "none", pulled |-> 0, processed |-> 0]
    /\ output = NoFile
    /\ progress = <<>>
    /\ save_file = [kept |-> TRUE, appended |-> <<>>]
    /\ save_errors = 0
    /\ confirm = "none"

\* MainWindow.start_export has started the worker (Start disabled, Cancel
\* enabled); nothing of it has been handled yet.
\* No filter function is being looked at on its own.
NoCall ==
    /\ arg_message = [attach |-> {}, text |-> <<>>, caption |-> <<>>]
    /\ arg_filters = [hashtags |-> <<>>, types |-> {}, has_media |-> FALSE,
                      no_media |-> FALSE, has_url |-> FALSE]
    /\ result = [returned |-> FALSE, gui |-> FALSE, cli |-> FALSE]

WindowStarted ==
    /\ start_enabled = FALSE
    /\ cancel_enabled = TRUE
    /\ errorsHandled = 0
    /\ finishedHandled = 0
    /\ orphans = 0
    /\ runs = 1

\* One run: a worker that validate_config let start, or the batch program,
\* whose environment may lack Telegram or Notion credentials (those runs are
\* taken with --yes and without --dry-run and --save).
Init ==
    /\ entry \in {"gui", "cli"}
    /\ config \in ConfigChoices
    /\ entry = "gui" => config = "complete"
    /\ entry = "cli" => config # "no_output"
    /\ source \in Sources
    /\ filters \in FilterChoices
    /\ entry = "gui" => filters.skip = 0
    /\ format \in Formats
    /\ entry = "cli" => format = "notion"
    /\ dry_run \in BOOLEAN
    /\ yes \in BOOLEAN
    /\ save \in BOOLEAN
    /\ entry = "gui" => (~dry_run /\ yes /\ ~save)
    /\ (entry = "cli" /\ config # "complete") => (~dry_run /\ yes /\ ~save)
    /\ pc = IF entry = "gui" THEN "connect" ELSE "cli_enter"
    /\ FreshRun
    /\ WindowStarted
    /\ NoCall

\* ----------------------------------------------- collaborator (GUI thread)
Running == pc \notin {"idle", "done"}

\* History: how far the run had got when the cancellation flag was set
\* ("pre_export": scanning is over and no sink has been entered; "check": at
\* the export loop's cancellation check; "write": past it).
Phase ==
    CASE pc \in {"pull", "chk_cancel", "process"} -> "scan"
      [] pc \in {"after_scan", "file_write"} -> "pre_export"
      [] pc = "n_loop" -> "check"
      [] pc \in {"n_create", "n_create_ret"} -> "write"
      [] OTHER -> "other"
CancelSnapshot ==
    [phase |-> Phase, pulled |-> pulled,
     processed |-> success_count + failed_count]

\* Mutant: cancel() throws the matched buffer away as well.
Cancel_DropsMatches ==
    /\ entry = "gui"
    /\ cancel_enabled
    /\ Running
    /\ ~cancelled
    /\ cancelled' = TRUE
    /\ cancelSnap' = CancelSnapshot
    /\ messages' = <<>>
    /\ UNCHANGED <<framev, logv, inputs, pc, authv, pulled, srcFailed, cur,
                   total_scanned, skipped, tested, expv, evv>>

\* ExportWorker.cancel, reached from MainWindow.cancel_export.
Cancel ==
    /\ entry = "gui"
    /\ cancel_enabled
    /\ Running
    /\ ~cancelled
    /\ cancelled' = TRUE
    /\ cancelSnap' = CancelSnapshot
    /\ UNCHANGED <<framev, logv, inputs, pc, authv, scanv, expv, evv>>

\* MainWindow.on_request_code: the dialog's answer is a code, an empty code or
\* a dismissal; only a non-empty code reaches set_auth_code.
OnRequestCode ==
    /\ codeDialog = "pending"
    /\ codeDialog' = "closed"
    /\ \E ok \in BOOLEAN, code \in {"", "12345"} :
         IF ok /\ code # ""
         THEN /\ auth_code' = code
              /\ UNCHANGED <<cancelled, cancelSnap>>
         ELSE /\ cancelled' = TRUE
              /\ cancelSnap' = IF cancelled THEN cancelSnap
                               ELSE CancelSnapshot
              /\ UNCHANGED auth_code
    /\ UNCHANGED <<framev, logv, inputs, pc, auth_password, sign_in_error, pwdDialog, authState,
                   codeRequests, pwdRequests, scanv, expv, evv>>

\* MainWindow.on_request_password.
OnRequestPassword ==
    /\ pwdDialog = "pending"
    /\ pwdDialog' = "closed"
    /\ \E ok \in BOOLEAN, password \in {"", "secret"} :
         IF ok /\ password # ""
         THEN /\ auth_password' = password
              /\ UNCHANGED <<cancelled, cancelSnap>>
         ELSE /\ cancelled' = TRUE
              /\ cancelSnap' = IF cancelled THEN cancelSnap
                               ELSE CancelSnapshot
              /\ UNCHANGED auth_password
    /\ UNCHANGED <<framev, logv, inputs, pc, auth_code, sign_in_error, codeDialog, authState,
                   codeRequests, pwdRequests, scanv, expv, evv>>

\* ------------------------------------------- ExportWorker._export: handshake
\* Mutant: the code is requested whatever the connection check reports.
GuiConnect_AlwaysSendsCode ==
    /\ pc = "connect"
    /\ \E r \in {"authorized", "unauthorized", "raise"} :
         /\ pc' = IF r = "raise" THEN "auth_except" ELSE "send_code"
         /\ authState' = IF r = "authorized" THEN "Authenticated" ELSE authState
    /\ UNCHANGED <<framev, logv, inputs, cancelled, auth_code, auth_password,
                   sign_in_error, codeDialog, pwdDialog, codeRequests,
                   pwdRequests, scanv, expv, evv, cancelSnap>>

\* is_authorized = await telegram.connect()
GuiConnect ==
    /\ pc = "connect"
    /\ \E r \in {"authorized", "unauthorized", "raise"} :
         /\ pc' = CASE r = "authorized" -> "pull"
                    [] r = "unauthorized" -> "send_code"
                    [] OTHER -> "auth_except"
         /\ authState' = IF r = "authorized" THEN "Authenticated" ELSE authState
    /\ UNCHANGED <<framev, logv, inputs, cancelled, auth_code, auth_password, sign_in_error, codeDialog,
                   pwdDialog, codeRequests, pwdRequests, scanv, expv, evv,
                   cancelSnap>>

\* sent_code = await telegram.send_code(phone); self.request_code.emit(phone)
GuiSendCode ==
    /\ pc = "send_code"
    /\ \E ok \in BOOLEAN :
         IF ok
         THEN /\ codeRequests' = codeRequests + 1
              /\ codeDialog' = "pending"
              /\ authState' = "AwaitingCode"
              /\ pc' = "wait_code"
         ELSE /\ pc' = "auth_except"
              /\ UNCHANGED <<codeRequests, codeDialog, authState>>
    /\ UNCHANGED <<framev, logv, inputs, cancelled, auth_code, auth_password, sign_in_error, pwdDialog,
                   pwdRequests, scanv, expv, evv, cancelSnap>>

\* Mutant: the code wait polls the code slot only.
GuiWaitCode_IgnoresCancel ==
    /\ pc = "wait_code"
    /\ auth_code # None
    /\ pc' = "check_code"
    /\ UNCHANGED <<framev, logv, inputs, cancelled, authv, scanv, expv, evv, cancelSnap>>

\* while self._auth_code is None and not self._is_cancelled: sleep(0.1)
GuiWaitCode ==
    /\ pc = "wait_code"
    /\ auth_code # None \/ cancelled
    /\ pc' = "check_code"
    /\ UNCHANGED <<framev, logv, inputs, cancelled, authv, scanv, expv, evv, cancelSnap>>

\* Mutant: a supplied code is used even when the flag is set.
GuiCheckCode_CodeWins ==
    /\ pc = "check_code"
    /\ UNCHANGED disconnects
    /\ IF auth_code \in {None, ""}
       THEN /\ errorEvents' = errorEvents + 1
            /\ authState' = "Cancelled"
            /\ pc' = "cancel_disconnect"
       ELSE /\ authState' = "SigningIn"
            /\ pc' = "sign_in"
            /\ UNCHANGED errorEvents
    /\ UNCHANGED <<framev, logv, inputs, cancelled, auth_code, auth_password, sign_in_error, codeDialog,
                   pwdDialog, codeRequests, pwdRequests, scanv, expv,
                   finishedEvents, finishedArgs, cancelSnap>>

\* if self._is_cancelled or not self._auth_code: error.emit(...)
GuiCheckCode ==
    /\ pc = "check_code"
    /\ UNCHANGED disconnects
    /\ IF cancelled \/ auth_code \in {None, ""}
       THEN /\ errorEvents' = errorEvents + 1
            /\ authState' = "Cancelled"
            /\ pc' = "cancel_disconnect"
       ELSE /\ authState' = "SigningIn"
            /\ pc' = "sign_in"
            /\ UNCHANGED errorEvents
    /\ UNCHANGED <<framev, logv, inputs, cancelled, auth_code, auth_password, sign_in_error, codeDialog,
                   pwdDialog, codeRequests, pwdRequests, scanv, expv,
                   finishedEvents, finishedArgs, cancelSnap>>

\* await telegram.disconnect(); return   (inside the outer try)
GuiCancelDisconnect ==
    /\ pc = "cancel_disconnect"
    /\ disconnects' = disconnects + 1
    /\ \E ok \in BOOLEAN : pc' = IF ok THEN "done" ELSE "auth_except"
    /\ UNCHANGED <<framev, logv, inputs, cancelled, authv, scanv, expv, errorEvents,
                   finishedEvents, finishedArgs, cancelSnap>>

\* await telegram.sign_in(...) and the handler of its failure
GuiSignIn ==
    /\ pc = "sign_in"
    /\ \/ /\ authState' = "Authenticated"
          /\ pc' = "pull"
          /\ UNCHANGED <<sign_in_error, pwdRequests, pwdDialog>>
       \/ \E e \in SignInErrors :
            /\ sign_in_error' = e
            /\ IF HasSecondFactorWording(e)
               THEN /\ pwdRequests' = pwdRequests + 1
                    /\ pwdDialog' = "pending"
                    /\ authState' = "AwaitingPassword"
                    /\ pc' = "wait_pwd"
               ELSE /\ pc' = "auth_except"
                    /\ UNCHANGED <<pwdRequests, pwdDialog, authState>>
    /\ UNCHANGED <<framev, logv, inputs, cancelled, auth_code, auth_password, codeDialog,
                   codeRequests, scanv, expv, evv, cancelSnap>>

\* while self._auth_password is None and not self._is_cancelled: sleep(0.1)
GuiWaitPwd ==
    /\ pc = "wait_pwd"
    /\ auth_password # None \/ cancelled
    /\ pc' = "check_pwd"
    /\ UNCHANGED <<framev, logv, inputs, cancelled, authv, scanv, expv, evv, cancelSnap>>

\* if self._is_cancelled or not self._auth_password: error.emit(...)
GuiCheckPwd ==
    /\ pc = "check_pwd"
    /\ UNCHANGED disconnects
    /\ IF cancelled \/ auth_password \in {None, ""}
       THEN /\ errorEvents' = errorEvents + 1
            /\ authState' = "Cancelled"
            /\ pc' = "cancel_disconnect"
       ELSE /\ pc' = "check_password"
            /\ UNCHANGED <<errorEvents, authState>>
    /\ UNCHANGED <<framev, logv, inputs, cancelled, auth_code, auth_password, sign_in_error, codeDialog,
                   pwdDialog, codeRequests, pwdRequests, scanv, expv,
                   finishedEvents, finishedArgs, cancelSnap>>

\* await telegram.check_password(self._auth_password); when it returns the
\* handler of the sign-in failure is left and its exception is dropped.
GuiCheckPassword ==
    /\ pc = "check_password"
    /\ \E ok \in BOOLEAN :
         IF ok
         THEN /\ authState' = "Authenticated"
              /\ sign_in_error' = NoError
              /\ pc' = "pull"
         ELSE /\ pc' = "auth_except"
              /\ UNCHANGED <<authState, sign_in_error>>
    /\ UNCHANGED <<framev, logv, inputs, cancelled, auth_code, auth_password, codeDialog,
                   pwdDialog, codeRequests, pwdRequests, scanv, expv, evv,
                   cancelSnap>>

\* Mutant: the handler of an authentication failure lacks its return.
GuiAuthExcept_NoReturn ==
    /\ pc = "auth_except"
    /\ disconnects' = disconnects + 1
    /\ errorEvents' = errorEvents + 1
    /\ authState' = IF authState = "Cancelled" THEN "Cancelled" ELSE "Failed"
    /\ pc' = "pull"
    /\ UNCHANGED <<framev, logv, inputs, cancelled, auth_code, auth_password, sign_in_error, codeDialog,
                   pwdDialog, codeRequests, pwdRequests, scanv, expv,
                   finishedEvents, finishedArgs, cancelSnap>>

\* except Exception as auth_error: error.emit(...); disconnect; return
GuiAuthExcept ==
    /\ pc = "auth_except"
    /\ disconnects' = disconnects + 1
    /\ errorEvents' = errorEvents + 1
    /\ authState' = IF authState = "Cancelled" THEN "Cancelled" ELSE "Failed"
    /\ pc' = "done"
    /\ UNCHANGED <<framev, logv, inputs, cancelled, auth_code, auth_password, sign_in_error, codeDialog,
                   pwdDialog, codeRequests, pwdRequests, scanv, expv,
                   finishedEvents, finishedArgs, cancelSnap>>

\* --------------------------------------------- ExportWorker._export: scanning
\* async for message in telegram.get_chat_history("me"): the iterator yields
\* the next message.
GuiPull ==
    /\ entry = "gui"
    /\ pc = "pull"
    /\ pulled < Len(source)
    /\ pulled' = pulled + 1
    /\ cur' = pulled + 1
    /\ pc' = "chk_cancel"
    /\ UNCHANGED <<framev, logv, inputs, cancelled, authv, srcFailed, total_scanned, skipped,
                   messages, tested, expv, evv, cancelSnap>>

\* The iterator is exhausted: the loop ends.
GuiSourceExhausted ==
    /\ entry = "gui"
    /\ pc = "pull"
    /\ pulled = Len(source)
    /\ pc' = "after_scan"
    /\ UNCHANGED <<framev, logv, inputs, cancelled, authv, scanv, expv, evv, cancelSnap>>

\* Mutant: the scanning loop swallows the iterator's exception and exports
\* what it has matched so far.
GuiPullRaises_Swallowed ==
    /\ entry = "gui"
    /\ pc = "pull"
    /\ srcFailed' = TRUE
    /\ pc' = "after_scan"
    /\ UNCHANGED <<framev, logv, inputs, cancelled, authv, pulled, cur, total_scanned,
                   skipped, messages, tested, expv, evv, cancelSnap>>

\* The iterator raises: the exception leaves _export through the finally
\* (disconnect) and run() emits error.
GuiPullRaises ==
    /\ entry = "gui"
    /\ pc = "pull"
    /\ disconnects' = disconnects + 1
    /\ srcFailed' = TRUE
    /\ errorEvents' = errorEvents + 1
    /\ pc' = "done"
    /\ UNCHANGED <<framev, logv, inputs, cancelled, authv, pulled, cur, total_scanned,
                   skipped, messages, tested, expv, finishedEvents,
                   finishedArgs, cancelSnap>>

\* Mutant: the scanning loop does not look at the cancellation flag.
GuiCheckCancelled_Ignored ==
    /\ pc = "chk_cancel"
    /\ pc' = "process"
    /\ UNCHANGED <<framev, logv, inputs, cancelled, authv, scanv, expv, evv, cancelSnap>>

\* if self._is_cancelled: log; return
GuiCheckCancelled ==
    /\ pc = "chk_cancel"
    /\ disconnects' = IF cancelled THEN disconnects + 1 ELSE disconnects
    /\ pc' = IF cancelled THEN "done" ELSE "process"
    /\ UNCHANGED <<framev, logv, inputs, cancelled, authv, scanv, expv, errorEvents,
                   finishedEvents, finishedArgs, cancelSnap>>

\* if total_scanned % 100 == 0: progress.emit(0, 0, "Scanned ..., matched ...")
Cadence == 100
ScanProgress(scanned, matched) ==
    IF scanned % Cadence = 0
    THEN Append(progress, [processed |-> 0, total |-> 0,
                           label |-> <<scanned, matched>>])
    ELSE progress

\* Mutant: reaching the limit does not break out of the scanning loop.
GuiProcess_NoBreak ==
    /\ pc = "process"
    /\ total_scanned' = total_scanned + 1
    /\ tested' = Append(tested, cur)
    /\ IF MatchesFilters(source[cur], filters)
       THEN messages' = Append(messages, cur)
       ELSE UNCHANGED messages
    /\ progress' = ScanProgress(total_scanned', Len(messages'))
    /\ pc' = "pull"
    /\ UNCHANGED <<framev, confirm, output, save_file, save_errors, inputs, cancelled,
                   authv, pulled, srcFailed, cur, skipped, expv, evv,
                   cancelSnap>>

\* total_scanned += 1; if self._matches_filters(message): append; limit:
\* break -- and, when the loop body runs to its end, the progress test
GuiProcess ==
    /\ pc = "process"
    /\ total_scanned' = total_scanned + 1
    /\ tested' = Append(tested, cur)
    /\ IF MatchesFilters(source[cur], filters)
       THEN /\ messages' = Append(messages, cur)
            /\ IF LimitReached(filters, messages')
               THEN /\ pc' = "after_scan"
                    /\ UNCHANGED progress
               ELSE /\ pc' = "pull"
                    /\ progress' = ScanProgress(total_scanned', Len(messages'))
       ELSE /\ pc' = "pull"
            /\ progress' = ScanProgress(total_scanned', Len(messages))
            /\ UNCHANGED messages
    /\ UNCHANGED <<framev, confirm, output, save_file, save_errors, inputs, cancelled,
                   authv, pulled, srcFailed, cur, skipped, expv, evv,
                   cancelSnap>>

\* Mutant: an empty matched buffer is handed to the sink like any other.
GuiAfterScan_EmptyDispatched ==
    /\ entry = "gui"
    /\ pc = "after_scan"
    /\ pc' = IF format \in {"json", "csv", "markdown"} THEN "file_write"
             ELSE "n_loop"
    /\ UNCHANGED <<framev, logv, inputs, cancelled, authv, scanv, expv, evv,
                   cancelSnap>>

\* if not messages: finished.emit(0, 0); return -- else dispatch on the format
GuiAfterScan ==
    /\ entry = "gui"
    /\ pc = "after_scan"
    /\ disconnects' = IF messages = <<>> THEN disconnects + 1 ELSE disconnects
    /\ IF messages = <<>>
       THEN /\ finishedEvents' = finishedEvents + 1
            /\ finishedArgs' = <<0, 0>>
            /\ pc' = "done"
       ELSE /\ pc' = IF format \in {"json", "csv", "markdown"} THEN "file_write"
                     ELSE "n_loop"
            /\ UNCHANGED <<finishedEvents, finishedArgs>>
    /\ UNCHANGED <<framev, logv, inputs, cancelled, authv, scanv, expv, errorEvents,
                   cancelSnap>>

\* ----------------------------------------------- ExportWorker: the sinks
\* Mutant: the export loop does not look at the cancellation flag.
GuiNotionLoop_NoCancelCheck ==
    /\ pc = "n_loop"
    /\ pc' = IF idx > Len(messages) THEN "emit_finished" ELSE "n_create"
    /\ UNCHANGED <<framev, logv, inputs, cancelled, authv, scanv, expv, evv, cancelSnap>>

\* for idx, message in enumerate(reversed(messages), 1):
\*     if self._is_cancelled: break
GuiNotionLoop ==
    /\ pc = "n_loop"
    /\ pc' = IF idx > Len(messages) \/ cancelled THEN "emit_finished"
             ELSE "n_create"
    /\ UNCHANGED <<framev, logv, inputs, cancelled, authv, scanv, expv, evv, cancelSnap>>

\* Mutant: the export loop walks the matched buffer in pull order.
GuiNotionCreateBegin_Forward ==
    /\ pc = "n_create"
    /\ inflight' = messages[idx]
    /\ attempts' = Append(attempts, messages[idx])
    /\ pc' = "n_create_ret"
    /\ UNCHANGED <<framev, logv, inputs, cancelled, authv, scanv, idx, success_count,
                   failed_count, written, evv, cancelSnap>>

\* notion.pages.create(**create_args) is called
GuiNotionCreateBegin ==
    /\ pc = "n_create"
    /\ inflight' = Reverse(messages)[idx]
    /\ attempts' = Append(attempts, Reverse(messages)[idx])
    /\ pc' = "n_create_ret"
    /\ UNCHANGED <<framev, logv, inputs, cancelled, authv, scanv, idx, success_count,
                   failed_count, written, evv, cancelSnap>>

\* self.progress.emit(idx, total, f"Exporting {idx}/{total}")
ExportProgress(i, n) ==
    Append(progress, [processed |-> i, total |-> n, label |-> <<i, n>>])

\* Mutant: a failed create-call ends the export loop.
GuiNotionCreateEnd_FailStops ==
    /\ pc = "n_create_ret"
    /\ \E ok \in BOOLEAN :
         IF ok
         THEN /\ success_count' = success_count + 1
              /\ written' = Append(written, inflight)
              /\ pc' = "n_loop"
              /\ UNCHANGED failed_count
         ELSE /\ failed_count' = failed_count + 1
              /\ pc' = "emit_finished"
              /\ UNCHANGED <<success_count, written>>
    /\ progress' = ExportProgress(idx, Len(messages))
    /\ inflight' = 0
    /\ idx' = idx + 1
    /\ UNCHANGED <<framev, confirm, output, save_file, save_errors, inputs, cancelled,
                   authv, scanv, attempts, evv, cancelSnap>>

\* Mutant: progress is reported for the items that were written only.
GuiNotionCreateEnd_SilentFailure ==
    /\ pc = "n_create_ret"
    /\ \E ok \in BOOLEAN :
         IF ok
         THEN /\ success_count' = success_count + 1
              /\ written' = Append(written, inflight)
              /\ progress' = ExportProgress(idx, Len(messages))
              /\ UNCHANGED failed_count
         ELSE /\ failed_count' = failed_count + 1
              /\ UNCHANGED <<success_count, written, progress>>
    /\ inflight' = 0
    /\ idx' = idx + 1
    /\ pc' = "n_loop"
    /\ UNCHANGED <<framev, confirm, output, save_file, save_errors, inputs, cancelled,
                   authv, scanv, attempts, evv, cancelSnap>>

\* the call returns (success_count += 1) or raises (failed_count += 1);
\* then progress.emit(idx, total, ...), whichever it was
GuiNotionCreateEnd ==
    /\ pc = "n_create_ret"
    /\ \E ok \in BOOLEAN :
         IF ok
         THEN /\ success_count' = success_count + 1
              /\ written' = Append(written, inflight)
              /\ UNCHANGED failed_count
         ELSE /\ failed_count' = failed_count + 1
              /\ UNCHANGED <<success_count, written>>
    /\ progress' = ExportProgress(idx, Len(messages))
    /\ inflight' = 0
    /\ idx' = idx + 1
    /\ pc' = "n_loop"
    /\ UNCHANGED <<framev, confirm, output, save_file, save_errors, inputs, cancelled,
                   authv, scanv, attempts, evv, cancelSnap>>

\* What a file sink writes ahead of the records: json.dump writes the array
\* alone, the CSV writer a header row, the Markdown writer a preamble.
HeaderOf(fmt) ==
    CASE fmt = "csv" -> "row"
      [] fmt = "markdown" -> "preamble"
      [] OTHER -> "none"

\* The states a failing write can leave the file in: not opened, opened and
\* empty, or opened with its header and the first n records.
PartialFiles(fmt, n) ==
    {o \in [created : BOOLEAN, header : {"none", HeaderOf(fmt)}] :
       /\ ~o.created => (o.header = "none" /\ n = 0)
       /\ (o.header = "none" /\ HeaderOf(fmt) # "none") => n = 0}

\* Mutant: a failing bulk write is reported per item, as a finished event
\* carrying the records that reached the file and the rest as failures.
GuiFileWrite_PerItem ==
    /\ pc = "file_write"
    /\ attempts' = Reverse(messages)
    /\ \/ /\ written' = Reverse(messages)
          /\ output' = [created |-> TRUE, header |-> HeaderOf(format)]
          /\ success_count' = Len(messages)
          /\ failed_count' = 0
       \/ \E n \in 0..Len(messages) : \E o \in PartialFiles(format, n) :
            /\ written' = Take(n, Reverse(messages))
            /\ output' = o
            /\ success_count' = n
            /\ failed_count' = Len(messages) - n
    /\ pc' = "emit_finished"
    /\ UNCHANGED <<framev, confirm, progress, save_file, save_errors, inputs, cancelled,
                   authv, scanv, idx, inflight, evv, cancelSnap>>

\* _export_to_json / _export_to_csv / _export_to_markdown: open(output_path,
\* 'w'), one pass over reversed(messages) into the file; return
\* len(messages), 0.  A failing write leaves the exception to run(), and the
\* file as far as it got.
GuiFileWrite ==
    /\ pc = "file_write"
    /\ attempts' = Reverse(messages)
    /\ \/ /\ written' = Reverse(messages)
          /\ output' = [created |-> TRUE, header |-> HeaderOf(format)]
          /\ success_count' = Len(messages)
          /\ failed_count' = 0
          /\ pc' = "emit_finished"
          /\ UNCHANGED <<errorEvents, disconnects>>
       \/ /\ \E n \in 0..Len(messages) : \E o \in PartialFiles(format, n) :
               /\ written' = Take(n, Reverse(messages))
               /\ output' = o
          /\ errorEvents' = errorEvents + 1
          /\ disconnects' = disconnects + 1
          /\ pc' = "done"
          /\ UNCHANGED <<success_count, failed_count>>
    /\ UNCHANGED <<framev, confirm, progress, save_file, save_errors, inputs, cancelled,
                   authv, scanv, idx, inflight, finishedEvents, finishedArgs,
                   cancelSnap>>

\* self.finished.emit(success, failed)
GuiEmitFinished ==
    /\ pc = "emit_finished"
    /\ disconnects' = disconnects + 1
    /\ finishedEvents' = finishedEvents + 1
    /\ finishedArgs' = <<success_count, failed_count>>
    /\ pc' = "done"
    /\ UNCHANGED <<framev, logv, inputs, cancelled, authv, scanv, expv, errorEvents,
                   cancelSnap>>

\* ------------------------------------------------- export_saved_messages
\* save_path.write_text(""): with --save the save file is emptied first of
\* all, dry run or not.
Truncated == [kept |-> FALSE, appended |-> <<>>]

\* The start of export_saved_messages: with --save the save file is emptied
\* (or the attempt raises); then async with telegram_app: the client starts
\* (and authorizes) or raises.
CliEnter ==
    /\ pc = "cli_enter"
    /\ UNCHANGED disconnects
    /\ \E r \in {"ok", "connect_raises", "save_raises"} :
         /\ r = "save_raises" => save
         /\ save_file' = IF save /\ r # "save_raises" THEN Truncated
                          ELSE save_file
         /\ CASE r = "ok" ->
                   /\ authState' = "Authenticated"
                   /\ pc' = "pull"
                   /\ UNCHANGED errorEvents
              [] r = "connect_raises" ->
                   /\ authState' = "Failed"
                   /\ errorEvents' = errorEvents + 1
                   /\ pc' = "done"
              [] OTHER ->
                   /\ errorEvents' = errorEvents + 1
                   /\ pc' = "done"
                   /\ UNCHANGED authState
    /\ UNCHANGED <<framev, confirm, output, progress, save_errors, inputs, cancelled,
                   auth_code, auth_password, sign_in_error, codeDialog,
                   pwdDialog, codeRequests, pwdRequests, scanv, expv,
                   finishedEvents, finishedArgs, cancelSnap>>

\* async for message in telegram_app.get_chat_history("me")
CliPull ==
    /\ entry = "cli"
    /\ pc = "pull"
    /\ pulled < Len(source)
    /\ pulled' = pulled + 1
    /\ cur' = pulled + 1
    /\ pc' = "cli_process"
    /\ UNCHANGED <<framev, logv, inputs, cancelled, authv, srcFailed, total_scanned, skipped,
                   messages, tested, expv, evv, cancelSnap>>

CliSourceExhausted ==
    /\ entry = "cli"
    /\ pc = "pull"
    /\ pulled = Len(source)
    /\ pc' = "after_scan"
    /\ UNCHANGED <<framev, logv, inputs, cancelled, authv, scanv, expv, evv, cancelSnap>>

\* The iterator raises: the exception leaves export_saved_messages uncaught.
CliPullRaises ==
    /\ entry = "cli"
    /\ pc = "pull"
    /\ disconnects' = disconnects + 1
    /\ srcFailed' = TRUE
    /\ errorEvents' = errorEvents + 1
    /\ pc' = "done"
    /\ UNCHANGED <<framev, logv, inputs, cancelled, authv, pulled, cur, total_scanned,
                   skipped, messages, tested, expv, finishedEvents,
                   finishedArgs, cancelSnap>>

\* Mutant: skip is applied after the filter, to the first matching items.
CliProcess_SkipMatching ==
    /\ pc = "cli_process"
    /\ total_scanned' = total_scanned + 1
    /\ tested' = Append(tested, cur)
    /\ IF MatchesFilters(source[cur], filters)
       THEN IF skipped < filters.skip
            THEN /\ skipped' = skipped + 1
                 /\ pc' = "pull"
                 /\ UNCHANGED <<messages, progress>>
            ELSE /\ messages' = Append(messages, cur)
                 /\ IF LimitReached(filters, messages')
                    THEN /\ pc' = "after_scan"
                         /\ UNCHANGED progress
                    ELSE /\ pc' = "pull"
                         /\ progress' = ScanProgress(total_scanned',
                                                      Len(messages'))
                 /\ UNCHANGED skipped
       ELSE /\ pc' = "pull"
            /\ progress' = ScanProgress(total_scanned', Len(messages))
            /\ UNCHANGED <<messages, skipped>>
    /\ UNCHANGED <<framev, confirm, output, save_file, save_errors, inputs, cancelled,
                   authv, pulled, srcFailed, cur, expv, evv, cancelSnap>>

\* total_fetched += 1; skip the first args.skip (continue); filter; append;
\* limit: break -- and, when the loop body runs to its end, the progress line
CliProcess ==
    /\ pc = "cli_process"
    /\ total_scanned' = total_scanned + 1
    /\ IF skipped < filters.skip
       THEN /\ skipped' = skipped + 1
            /\ pc' = "pull"
            /\ UNCHANGED <<messages, tested, progress>>
       ELSE /\ tested' = Append(tested, cur)
            /\ UNCHANGED skipped
            /\ IF MatchesFilters(source[cur], filters)
               THEN /\ messages' = Append(messages, cur)
                    /\ IF LimitReached(filters, messages')
                       THEN /\ pc' = "after_scan"
                            /\ UNCHANGED progress
                       ELSE /\ pc' = "pull"
                            /\ progress' = ScanProgress(total_scanned',
                                                         Len(messages'))
               ELSE /\ pc' = "pull"
                    /\ progress' = ScanProgress(total_scanned', Len(messages))
                    /\ UNCHANGED messages
    /\ UNCHANGED <<framev, confirm, output, save_file, save_errors, inputs, cancelled,
                   authv, pulled, srcFailed, cur, expv, evv, cancelSnap>>

\* What the user may type at the prompt.
Answers == {"y", "Y", "yes", "n", ""}

\* confirm.lower() != 'y'
Declined(answer) == answer \notin {"y", "Y"}

\* Mutant: any answer that is not a plain "n" starts the export.
CliAfterScan_LenientAnswer ==
    /\ entry = "cli"
    /\ pc = "after_scan"
    /\ IF messages = <<>> \/ dry_run
       THEN pc' = "done" /\ UNCHANGED confirm
       ELSE IF yes
       THEN pc' = "cli_loop" /\ UNCHANGED confirm
       ELSE \E answer \in Answers :
              /\ confirm' = answer
              /\ pc' = IF answer = "n" THEN "done" ELSE "cli_loop"
    /\ disconnects' = IF pc' = "done" THEN disconnects + 1 ELSE disconnects
    /\ UNCHANGED <<framev, output, progress, save_file, save_errors, inputs,
                   cancelled, authv, scanv, expv, errorEvents,
                   finishedEvents, finishedArgs, cancelSnap>>

\* Mutant: the batch program lacks its return on an empty matched buffer.
CliAfterScan_EmptyExports ==
    /\ entry = "cli"
    /\ pc = "after_scan"
    /\ IF dry_run
       THEN pc' = "done" /\ UNCHANGED confirm
       ELSE IF yes
       THEN pc' = "cli_loop" /\ UNCHANGED confirm
       ELSE \E answer \in Answers :
              /\ confirm' = answer
              /\ pc' = IF Declined(answer) THEN "done" ELSE "cli_loop"
    /\ disconnects' = IF pc' = "done" THEN disconnects + 1 ELSE disconnects
    /\ UNCHANGED <<framev, output, progress, save_file, save_errors, inputs,
                   cancelled, authv, scanv, expv, errorEvents,
                   finishedEvents, finishedArgs, cancelSnap>>

\* if not messages: return; if args.dry_run: preview, return;
\* if not args.yes: confirm = input(...); if confirm.lower() != 'y': return
CliAfterScan ==
    /\ entry = "cli"
    /\ pc = "after_scan"
    /\ IF messages = <<>> \/ dry_run
       THEN pc' = "done" /\ UNCHANGED confirm
       ELSE IF yes
       THEN pc' = "cli_loop" /\ UNCHANGED confirm
       ELSE \E answer \in Answers :
              /\ confirm' = answer
              /\ pc' = IF Declined(answer) THEN "done" ELSE "cli_loop"
    /\ disconnects' = IF pc' = "done" THEN disconnects + 1 ELSE disconnects
    /\ UNCHANGED <<framev, output, progress, save_file, save_errors, inputs,
                   cancelled, authv, scanv, expv, errorEvents,
                   finishedEvents, finishedArgs, cancelSnap>>

\* if save_path: try: save_message_to_txt(message, save_path); saved_count += 1
\* except: save_errors += 1 -- the block is appended to the file or it is not.
SaveToTxt(item) ==
    IF save
    THEN \E saved \in BOOLEAN :
           IF saved
           THEN /\ save_file' = [save_file EXCEPT
                                   !.appended = Append(@, item)]
                /\ UNCHANGED save_errors
           ELSE /\ save_errors' = save_errors + 1
                /\ UNCHANGED save_file
    ELSE UNCHANGED <<save_file, save_errors>>

\* Mutant: the batch export loop walks the matched buffer in pull order.
CliExportBegin_Forward ==
    /\ pc = "cli_loop"
    /\ idx <= Len(messages)
    /\ SaveToTxt(messages[idx])
    /\ inflight' = messages[idx]
    /\ attempts' = Append(attempts, messages[idx])
    /\ pc' = "cli_create_ret"
    /\ UNCHANGED <<framev, confirm, output, progress, inputs, cancelled, authv, scanv,
                   idx, success_count, failed_count, written, evv, cancelSnap>>

\* Mutant: a message whose save failed is not sent to Notion.
CliExportBegin_SaveFailureSkips ==
    /\ pc = "cli_loop"
    /\ idx <= Len(messages)
    /\ \E saved \in BOOLEAN :
         IF saved \/ ~save
         THEN /\ save_file' = IF save
                              THEN [save_file EXCEPT
                                      !.appended =
                                         Append(@, Reverse(messages)[idx])]
                              ELSE save_file
              /\ inflight' = Reverse(messages)[idx]
              /\ attempts' = Append(attempts, Reverse(messages)[idx])
              /\ pc' = "cli_create_ret"
              /\ UNCHANGED <<save_errors, idx>>
         ELSE /\ save_errors' = save_errors + 1
              /\ idx' = idx + 1
              /\ pc' = "cli_loop"
              /\ UNCHANGED <<save_file, inflight, attempts>>
    /\ UNCHANGED <<framev, confirm, output, progress, inputs, cancelled, authv, scanv,
                   success_count, failed_count, written, evv, cancelSnap>>

\* for idx, message in enumerate(reversed(messages), 1): the message is
\* saved to the text file if asked for, then the call
\* create_notion_page(message) is made
CliExportBegin ==
    /\ pc = "cli_loop"
    /\ idx <= Len(messages)
    /\ SaveToTxt(Reverse(messages)[idx])
    /\ inflight' = Reverse(messages)[idx]
    /\ attempts' = Append(attempts, Reverse(messages)[idx])
    /\ pc' = "cli_create_ret"
    /\ UNCHANGED <<framev, confirm, output, progress, inputs, cancelled, authv, scanv,
                   idx, success_count, failed_count, written, evv, cancelSnap>>

\* if not args.verbose and idx % 10 == 0: print("Progress: idx/total ...")
CliExportCadence == 10

\* create_notion_page returns True (page created) or False (the API error
\* was caught inside it); then the progress line of every tenth item
CliExportEnd ==
    /\ pc = "cli_create_ret"
    /\ \E success \in BOOLEAN :
         IF success /\ config # "no_notion"
         THEN /\ success_count' = success_count + 1
              /\ written' = Append(written, inflight)
              /\ UNCHANGED failed_count
         ELSE /\ failed_count' = failed_count + 1
              /\ UNCHANGED <<success_count, written>>
    /\ progress' = IF idx % CliExportCadence = 0
                   THEN ExportProgress(idx, Len(messages)) ELSE progress
    /\ inflight' = 0
    /\ idx' = idx + 1
    /\ pc' = "cli_loop"
    /\ UNCHANGED <<framev, confirm, output, save_file, save_errors, inputs, cancelled,
                   authv, scanv, attempts, evv, cancelSnap>>

\* the loop is over: print the export summary
CliSummary ==
    /\ pc = "cli_loop"
    /\ disconnects' = disconnects + 1
    /\ idx > Len(messages)
    /\ finishedEvents' = finishedEvents + 1
    /\ finishedArgs' = <<success_count, failed_count>>
    /\ pc' = "done"
    /\ UNCHANGED <<framev, logv, inputs, cancelled, authv, scanv, expv, errorEvents,
                   cancelSnap>>

Next ==
    \/ Cancel
    \/ OnRequestCode
    \/ OnRequestPassword
    \/ GuiConnect
    \/ GuiSendCode
    \/ GuiWaitCode
    \/ GuiCheckCode
    \/ GuiCancelDisconnect
    \/ GuiSignIn
    \/ GuiWaitPwd
    \/ GuiCheckPwd
    \/ GuiCheckPassword
    \/ GuiAuthExcept
    \/ GuiPull
    \/ GuiSourceExhausted
    \/ GuiPullRaises
    \/ GuiCheckCancelled
    \/ GuiProcess
    \/ GuiAfterScan
    \/ GuiNotionLoop
    \/ GuiNotionCreateBegin
    \/ GuiNotionCreateEnd
    \/ GuiFileWrite
    \/ GuiEmitFinished
    \/ CliEnter
    \/ CliPull
    \/ CliSourceExhausted
    \/ CliPullRaises
    \/ CliProcess
    \/ CliAfterScan
    \/ CliExportBegin
    \/ CliExportEnd
    \/ CliSummary

Spec == Init /\ [][Next]_vars

\* ------------------------------------------- one worker run, fairly scheduled
\* QThread.run drives the coroutine to its end: asyncio.run(self._export())
\* resumes it after every await and every sleep(0.1) of the polling loops, so
\* the worker takes its next step whenever it has one.  The GUI thread's
\* steps (cancel, the dialogs' answers) are the user's and need never happen.
MaxLiveSrc == 1

GuiWorker ==
    \/ GuiConnect
    \/ GuiSendCode
    \/ GuiWaitCode
    \/ GuiCheckCode
    \/ GuiCancelDisconnect
    \/ GuiSignIn
    \/ GuiWaitPwd
    \/ GuiCheckPwd
    \/ GuiCheckPassword
    \/ GuiAuthExcept
    \/ GuiPull
    \/ GuiSourceExhausted
    \/ GuiPullRaises
    \/ GuiCheckCancelled
    \/ GuiProcess
    \/ GuiAfterScan
    \/ GuiNotionLoop
    \/ GuiNotionCreateBegin
    \/ GuiNotionCreateEnd
    \/ GuiFileWrite
    \/ GuiEmitFinished

LiveInit ==
    /\ Init
    /\ entry = "gui"
    /\ Len(source) <= MaxLiveSrc

LiveNext ==
    \/ Cancel
    \/ OnRequestCode
    \/ OnRequestPassword
    \/ GuiWorker

LiveSpec == LiveInit /\ [][LiveNext]_vars /\ WF_vars(GuiWorker)

\* ------------------------------------------- scanning a long message history
\* Runs over histories long enough for the progress cadence: Text and Photo
\* messages in turn, a kind filter or none, a limit or none, and for the
\* batch program a skip or none.  The runs are followed up to the end of
\* scanning.
MaxCadences == 2
LongSources ==
    {[i \in 1..n |-> IF i % 2 = 0 THEN "Photo" ELSE "Text"] :
       n \in UNION {{k * Cadence - 1, k * Cadence, k * Cadence + 1} :
                      k \in 1..MaxCadences}}
ScanFilters ==
    [types : TypeChoices, has_media : {FALSE}, no_media : {FALSE},
     limit : {0, Cadence \div 2, Cadence}, skip : {0, 1, Cadence}]

ScanInit ==
    /\ entry \in {"gui", "cli"}
    /\ config = "complete"
    /\ source \in LongSources
    /\ filters \in ScanFilters
    /\ entry = "gui" => filters.skip = 0
    /\ format = "notion"
    /\ dry_run = FALSE
    /\ yes = TRUE
    /\ save = FALSE
    /\ pc = IF entry = "gui" THEN "connect" ELSE "cli_enter"
    /\ FreshRun
    /\ WindowStarted
    /\ NoCall

ScanNext ==
    \/ GuiConnect
    \/ GuiPull
    \/ GuiSourceExhausted
    \/ GuiCheckCancelled
    \/ GuiProcess
    \/ CliEnter
    \/ CliPull
    \/ CliSourceExhausted
    \/ CliProcess

ScanSpec == ScanInit /\ [][ScanNext]_vars

\* ------------------------------------------------- the window and its runs
MaxRuns == 2

\* MainWindow.validate_config: Telegram credentials always; Notion credentials
\* when the sink is Notion; the output path when the sink is a file.
ValidConfig(c, fmt) ==
    \/ c = "complete"
    \/ c = "no_notion" /\ fmt # "notion"
    \/ c = "no_output" /\ fmt = "notion"

\* MainWindow.__init__: no worker yet, Start enabled, Cancel disabled.
WindowIdle ==
    /\ entry = "gui"
    /\ config = "complete"
    /\ source = <<>>
    /\ filters = [types |-> {}, has_media |-> FALSE, no_media |-> FALSE,
                  limit |-> 0, skip |-> 0]
    /\ format = "notion"
    /\ dry_run = FALSE
    /\ save = FALSE
    /\ yes = TRUE
    /\ pc = "idle"
    /\ FreshRun
    /\ start_enabled = TRUE
    /\ cancel_enabled = FALSE
    /\ errorsHandled = 0
    /\ finishedHandled = 0
    /\ orphans = 0
    /\ runs = 0

WinInit == WindowIdle /\ NoCall

\* MainWindow.start_export with the form as the user left it: return when
\* validate_config fails; otherwise put a new ExportWorker in self.worker,
\* disable Start, enable Cancel and start the worker.  The worker that was in
\* self.worker keeps executing if it had not returned yet.
StartExport ==
    /\ start_enabled
    /\ runs < MaxRuns
    /\ \E c \in ConfigChoices, fmt \in Formats :
         /\ config' = c
         /\ format' = fmt
         /\ IF ValidConfig(c, fmt)
            THEN /\ source' \in {src \in Sources : Len(src) <= MaxLiveSrc}
                 /\ filters' \in {f \in FilterChoices :
                                     /\ f.skip = 0 /\ f.types = {}
                                     /\ ~f.has_media /\ ~f.no_media
                                     /\ f.limit <= 1}
                 /\ cancelled' = FALSE
                 /\ auth_code' = None
                 /\ auth_password' = None
                 /\ sign_in_error' = NoError
                 /\ codeDialog' = "none"
                 /\ pwdDialog' = "none"
                 /\ authState' = "Disconnected"
                 /\ pulled' = 0
                 /\ srcFailed' = FALSE
                 /\ cur' = 0
                 /\ total_scanned' = 0
                 /\ skipped' = 0
                 /\ messages' = <<>>
                 /\ tested' = <<>>
                 /\ idx' = 1
                 /\ success_count' = 0
                 /\ failed_count' = 0
                 /\ inflight' = 0
                 /\ attempts' = <<>>
                 /\ written' = <<>>
                 /\ errorEvents' = 0
                 /\ finishedEvents' = 0
                 /\ finishedArgs' = <<0, 0>>
                 /\ disconnects' = 0
                 /\ codeRequests' = 0
                 /\ pwdRequests' = 0
                 /\ cancelSnap' = [phase |-> "none", pulled |-> 0, processed |-> 0]
                 /\ output' = NoFile
                 /\ progress' = <<>>
                 /\ save_file' = [kept |-> TRUE, appended |-> <<>>]
                 /\ save_errors' = 0
                 /\ confirm' = "none"
                 /\ pc' = "connect"
                 /\ start_enabled' = FALSE
                 /\ cancel_enabled' = TRUE
                 /\ errorsHandled' = 0
                 /\ finishedHandled' = 0
                 /\ orphans' = orphans + (IF Running THEN 1 ELSE 0)
                 /\ runs' = runs + 1
            ELSE UNCHANGED <<source, filters, workerv, winv>>
    /\ UNCHANGED <<entry, dry_run, yes, save, purev>>

\* MainWindow.on_finished, the slot of the worker's finished signal.
OnFinished ==
    /\ finishedHandled < finishedEvents
    /\ finishedHandled' = finishedHandled + 1
    /\ start_enabled' = TRUE
    /\ cancel_enabled' = FALSE
    /\ UNCHANGED <<inputs, workerv, errorsHandled, orphans, runs, purev>>

\* MainWindow.on_error, the slot of the worker's error signal.
OnError ==
    /\ errorsHandled < errorEvents
    /\ errorsHandled' = errorsHandled + 1
    /\ start_enabled' = TRUE
    /\ cancel_enabled' = FALSE
    /\ UNCHANGED <<inputs, workerv, finishedHandled, orphans, runs, purev>>

\* A replaced worker's run() returns.
OrphanEnds ==
    /\ orphans > 0
    /\ orphans' = orphans - 1
    /\ UNCHANGED <<inputs, workerv, start_enabled, cancel_enabled,
                   errorsHandled, finishedHandled, runs, purev>>

WinNext ==
    \/ StartExport
    \/ OnFinished
    \/ OnError
    \/ OrphanEnds
    \/ Cancel
    \/ OnRequestCode
    \/ OnRequestPassword
    \/ GuiWorker

WinSpec == WinInit /\ [][WinNext]_vars

\* ------------------------------------------ the filter functions on their own
MaxText == 3

\* Characters of a message text: '#', word characters of both cases, and a
\* character that is neither.
Alphabet == {"#", "a", "A", "c", " "}
Letters == {"a", "A", "b", "B", "c", "h", "t", "p", "s", "x"}
Digits == {"0", "1", "2", "3", "4", "5", "6", "7", "8", "9"}
WordChars == Letters \cup Digits
Texts == UNION {[1..n -> Alphabet] : n \in 0..MaxText}

\* The attachment fields _get_message_type tests, in its order.
Attachments == <<"photo", "video", "document", "audio", "voice", "sticker",
                 "animation", "poll", "location", "contact">>
KindOf == <<"Photo", "Video", "Document", "Audio", "Voice", "Sticker", "GIF",
            "Poll", "Location", "Contact">>

\* Messages as Pyrogram delivers them: a text message carries message.text, a
\* message with an attachment carries its words in message.caption.
Messages ==
    {[attach |-> {}, text |-> t, caption |-> <<>>] : t \in Texts}
    \cup {[attach |-> {Attachments[i]}, text |-> <<>>, caption |-> t] :
             i \in 1..Len(Attachments), t \in Texts}

\* The settings a filter function is called with: required hashtags (a list of
\* tags, each a string of characters), kinds, and the two media flags.
HashtagChoices ==
    {<<>>, <<(<<"a">>), (<<"b">>)>>, <<(<<"A">>)>>, <<(<<"a", "c">>)>>}
MessageFilters ==
    [hashtags : HashtagChoices, types : TypeChoices,
     has_media : BOOLEAN, no_media : BOOLEAN, has_url : {FALSE}]

\* str.lower()
LowerChar(ch) == IF ch = "A" THEN "a" ELSE IF ch = "B" THEN "b" ELSE ch
Lower(str) == [i \in 1..Len(str) |-> LowerChar(str[i])]

\* text = message.text or message.caption or ""
TextOf(m) == IF m.text # <<>> THEN m.text ELSE m.caption

\* _get_message_type / get_message_type: the first attachment present in the
\* fixed order, else Text when message.text is non-empty, else Other.
GetMessageType(m) ==
    IF \E i \in 1..Len(Attachments) : Attachments[i] \in m.attach
    THEN KindOf[CHOOSE i \in 1..Len(Attachments) :
                  /\ Attachments[i] \in m.attach
                  /\ \A j \in 1..(i - 1) : Attachments[j] \notin m.attach]
    ELSE IF m.text # <<>> THEN "Text"
    ELSE "Other"

\* Mutant: a non-empty message.text is tested before the attachments.
CliGetMessageType_TextFirst(m) ==
    IF m.text # <<>> THEN "Text"
    ELSE IF "photo" \in m.attach THEN "Photo"
    ELSE IF "video" \in m.attach THEN "Video"
    ELSE IF "document" \in m.attach THEN "Document"
    ELSE IF "audio" \in m.attach THEN "Audio"
    ELSE IF "voice" \in m.attach THEN "Voice"
    ELSE IF "sticker" \in m.attach THEN "Sticker"
    ELSE IF "animation" \in m.attach THEN "GIF"
    ELSE IF "poll" \in m.attach THEN "Poll"
    ELSE IF "location" \in m.attach THEN "Location"
    ELSE IF "contact" \in m.attach THEN "Contact"
    ELSE "Other"

\* get_message_type: if message.photo ... elif message.video ... else "Other"
CliGetMessageType(m) ==
    IF "photo" \in m.attach THEN "Photo"
    ELSE IF "video" \in m.attach THEN "Video"
    ELSE IF "document" \in m.attach THEN "Document"
    ELSE IF "audio" \in m.attach THEN "Audio"
    ELSE IF "voice" \in m.attach THEN "Voice"
    ELSE IF "sticker" \in m.attach THEN "Sticker"
    ELSE IF "animation" \in m.attach THEN "GIF"
    ELSE IF "poll" \in m.attach THEN "Poll"
    ELSE IF "location" \in m.attach THEN "Location"
    ELSE IF "contact" \in m.attach THEN "Contact"
    ELSE IF m.text # <<>> THEN "Text"
    ELSE "Other"

\* The first position from i on at which Test holds (0: none), and the end of
\* the longest run of characters of `set` that starts at position i.
FirstAt(str, i, Test(_, _)) ==
    IF \E k \in i..Len(str) : Test(str, k)
    THEN CHOOSE k \in i..Len(str) :
           Test(str, k) /\ \A j \in i..(k - 1) : ~Test(str, j)
    ELSE 0
RunEnd(str, i, set) ==
    LET stop == FirstAt(str, i, LAMBDA z, k : z[k] \notin set)
    IN  IF stop = 0 THEN Len(str) ELSE stop - 1

\* re.findall(r'#(\w+)', text), scanning from position i: the leftmost '#'
\* followed by a word character yields the longest run of word characters
\* behind it, and the scan resumes behind that run.
HashtagAt(str, k) ==
    str[k] = "#" /\ k < Len(str) /\ str[k + 1] \in WordChars
RECURSIVE FindHashtags(_, _)
FindHashtags(str, i) ==
    LET at == FirstAt(str, i, HashtagAt)
    IN  IF at = 0 THEN <<>>
        ELSE <<SubSeq(str, at + 1, RunEnd(str, at + 1, WordChars))>>
                 \o FindHashtags(str, RunEnd(str, at + 1, WordChars) + 1)

\* _extract_hashtags / extract_hashtags
ExtractHashtags(str) == FindHashtags(str, 1)

\* Mutant: every required hashtag must occur (all-of).
HashtagsMatch_AllOf(required, str) ==
    LET msg_hashtags == [i \in 1..Len(ExtractHashtags(str)) |->
                           Lower(ExtractHashtags(str)[i])]
        required_lower == [i \in 1..Len(required) |-> Lower(required[i])]
    IN  \A i \in 1..Len(required_lower) :
          \E j \in 1..Len(msg_hashtags) :
            required_lower[i] = msg_hashtags[j]

\* msg_hashtags = [t.lower() ...]; required = [t.lower() ...];
\* any(t in msg_hashtags for t in required)
HashtagsMatch(required, str) ==
    LET msg_hashtags == [i \in 1..Len(ExtractHashtags(str)) |->
                           Lower(ExtractHashtags(str)[i])]
        required_lower == [i \in 1..Len(required) |-> Lower(required[i])]
    IN  \E i \in 1..Len(required_lower) :
          \E j \in 1..Len(msg_hashtags) :
            required_lower[i] = msg_hashtags[j]

Http == <<"h", "t", "t", "p", ":", "/", "/">>
Https == <<"h", "t", "t", "p", "s", ":", "/", "/">>

\* [a-zA-Z] | [0-9] | [$-_@.&+] | [!*\(\),]: letters, digits and, of the
\* characters used here, ':', '/' and '.'; not '#', '~' or the space.
UrlChars == Letters \cup Digits \cup {":", "/", "."}

\* http[s]?:// at position k: the length of the scheme matched there, or 0.
SchemeLen(str, k) ==
    IF str[k] = "h" /\ k + 3 <= Len(str)
       /\ SubSeq(str, k, k + 3) = <<"h", "t", "t", "p">>
    THEN IF k + 7 <= Len(str)
            /\ SubSeq(str, k + 4, k + 7) = <<"s", ":", "/", "/">>
         THEN 8
         ELSE IF k + 6 <= Len(str)
                 /\ SubSeq(str, k + 4, k + 6) = <<":", "/", "/">>
         THEN 7
         ELSE 0
    ELSE 0

\* The extraction pattern matches at k: a scheme and at least one URL
\* character behind it.
UrlAt(str, k) ==
    /\ SchemeLen(str, k) > 0
    /\ k + SchemeLen(str, k) <= Len(str)
    /\ str[k + SchemeLen(str, k)] \in UrlChars

\* re.findall(pattern, text) from position i: leftmost match, longest run of
\* URL characters, resume behind it.
RECURSIVE FindUrls(_, _)
FindUrls(str, i) ==
    LET at == FirstAt(str, i, UrlAt)
        end == RunEnd(str, at + SchemeLen(str, at), UrlChars)
    IN  IF at = 0 THEN <<>>
        ELSE <<SubSeq(str, at, end)>> \o FindUrls(str, end + 1)

\* _extract_urls / extract_urls
ExtractUrls(str) == FindUrls(str, 1)

\* re.findall(r'https?://\S+', text) finds something: a scheme with a
\* character behind it that is no white space.
SchemeAndNonSpaceAt(str, k) ==
    /\ SchemeLen(str, k) > 0
    /\ k + SchemeLen(str, k) <= Len(str)
    /\ str[k + SchemeLen(str, k)] # " "
FilterFindsUrl(str) == FirstAt(str, 1, SchemeAndNonSpaceAt) # 0

\* Mutant: has_media rejects Text only.
GuiMatchesFilters_OtherIsMedia(m, f) ==
    LET text == TextOf(m)
        msg_type == GetMessageType(m)
    IN  IF f.hashtags # <<>> /\ ~HashtagsMatch(f.hashtags, text) THEN FALSE
        ELSE IF f.types # {} /\ msg_type \notin f.types THEN FALSE
        ELSE IF f.has_url /\ ~FilterFindsUrl(text) THEN FALSE
        ELSE IF f.has_media /\ msg_type = "Text" THEN FALSE
        ELSE IF f.no_media /\ msg_type # "Text" THEN FALSE
        ELSE TRUE

\* ExportWorker._matches_filters on hashtags, kinds, has_url and the media
\* flags.
GuiMatchesFilters(m, f) ==
    LET text == TextOf(m)
        msg_type == GetMessageType(m)
    IN  IF f.hashtags # <<>> /\ ~HashtagsMatch(f.hashtags, text) THEN FALSE
        ELSE IF f.types # {} /\ msg_type \notin f.types THEN FALSE
        ELSE IF f.has_url /\ ~FilterFindsUrl(text) THEN FALSE
        ELSE IF f.has_media /\ msg_type \in {"Text", "Other"} THEN FALSE
        ELSE IF f.no_media /\ msg_type # "Text" THEN FALSE
        ELSE TRUE

\* message_matches_filters on the same settings.
CliMatchesFilters(m, f) ==
    LET text == TextOf(m)
        msg_type == CliGetMessageType(m)
    IN  IF f.hashtags # <<>> /\ ~HashtagsMatch(f.hashtags, text) THEN FALSE
        ELSE IF f.types # {} /\ msg_type \notin f.types THEN FALSE
        ELSE IF f.has_url /\ ExtractUrls(text) = <<>> THEN FALSE
        ELSE IF f.has_media /\ (msg_type = "Text" \/ msg_type = "Other")
        THEN FALSE
        ELSE IF f.no_media /\ msg_type # "Text" THEN FALSE
        ELSE TRUE

\* No run is in progress; a message and filter settings are given.
MatchInit ==
    /\ WindowIdle
    /\ arg_message \in Messages
    /\ arg_filters \in MessageFilters
    /\ result = [returned |-> FALSE, gui |-> FALSE, cli |-> FALSE]

\* Both filter functions are called with the message and the settings.
ApplyFilters ==
    /\ ~result.returned
    /\ result' = [returned |-> TRUE,
                  gui |-> GuiMatchesFilters(arg_message, arg_filters),
                  cli |-> CliMatchesFilters(arg_message, arg_filters)]
    /\ UNCHANGED <<inputs, workerv, winv, arg_message, arg_filters>>

MatchNext == ApplyFilters

MatchSpec == MatchInit /\ [][MatchNext]_vars

\* --------------------------------------- the kind classifiers on their own
\* Every combination of the ten attachment fields, with and without
\* message.text and message.caption.
KindMessages ==
    [attach : SUBSET {Attachments[i] : i \in 1..Len(Attachments)},
     text : {<<>>, <<"a">>}, caption : {<<>>, <<"a">>}]

KindInit ==
    /\ WindowIdle
    /\ arg_message \in KindMessages
    /\ arg_filters = [hashtags |-> <<>>, types |-> {}, has_media |-> FALSE,
                      no_media |-> FALSE, has_url |-> FALSE]
    /\ result = [returned |-> FALSE, gui |-> None, cli |-> None]

\* Both classifiers are called with the message.
Classify ==
    /\ ~result.returned
    /\ result' = [returned |-> TRUE,
                  gui |-> GetMessageType(arg_message),
                  cli |-> CliGetMessageType(arg_message)]
    /\ UNCHANGED <<inputs, workerv, winv, arg_message, arg_filters>>

KindNext == Classify

KindSpec == KindInit /\ [][KindNext]_vars

\* ------------------------------------------- the page builders on their own
TitleLimit == 100
ChunkSize == 2000
TagLimit == 5
MaxChunks == 2
LenMargin == 3
MaxTagCount == 6
MaxTokens == 3

Ellipsis == <<".", ".", ".">>

\* Mutant: a long title is cut without the three dots.
Title_NoEllipsis(text, msg_type) ==
    IF text # <<>> THEN Take(TitleLimit, text) ELSE <<msg_type, " message">>

\* title = text[:100] if text else f"{msg_type} message";
\* if len(text) > 100: title += "..."
Title(text, msg_type) ==
    (IF text # <<>> THEN Take(TitleLimit, text) ELSE <<msg_type, " message">>)
    \o (IF Len(text) > TitleLimit THEN Ellipsis ELSE <<>>)

\* The properties of the page: Name and Type always, Tags and URL only when
\* there is a hashtag, a URL.  (Date and Message ID copy fields of the
\* message that no filter or builder reads; they are left out.)
Properties(text, msg_type) ==
    LET hashtags == ExtractHashtags(text)
        urls == ExtractUrls(text)
        keys == {"Name", "Type"}
                  \cup (IF hashtags # <<>> THEN {"Tags"} ELSE {})
                  \cup (IF urls # <<>> THEN {"URL"} ELSE {})
    IN  [k \in keys |->
           CASE k = "Name" -> Title(text, msg_type)
             [] k = "Type" -> msg_type
             [] k = "Tags" -> Take(TagLimit, hashtags)
             [] k = "URL" -> urls[1]]

\* for i in range(0, len(text), 2000): text[i:i+2000]   (i counts from 0)
RECURSIVE Chunks(_, _)
Chunks(text, i) ==
    IF i >= Len(text) THEN <<>>
    ELSE <<[type |-> "paragraph",
            content |-> SubSeq(text, i + 1,
                               IF i + ChunkSize < Len(text)
                               THEN i + ChunkSize ELSE Len(text))]>>
           \o Chunks(text, i + ChunkSize)

\* Mutant: a text of exactly 100 characters gets a body too.
Paragraphs_Inclusive(text) ==
    IF text # <<>> /\ Len(text) >= TitleLimit THEN Chunks(text, 0) ELSE <<>>
\* if text and len(text) > 100: one paragraph block per chunk
Paragraphs(text) ==
    IF text # <<>> /\ Len(text) > TitleLimit THEN Chunks(text, 0) ELSE <<>>

\* create_notion_page, after the text: one callout per media field in the
\* order of its `if`s, then a heading and one linked paragraph per URL.
CalloutOrder == <<"photo", "video", "document", "audio", "voice", "sticker",
                  "animation", "location", "contact", "poll">>
Callouts(m) ==
    LET present == SelectSeq(CalloutOrder, LAMBDA a : a \in m.attach)
    IN  [i \in 1..Len(present) |->
           [type |-> "callout", content |-> <<present[i]>>]]
LinkBlocks(urls) ==
    IF urls = <<>> THEN <<>>
    ELSE <<[type |-> "heading_3", content |-> <<"Links">>]>>
           \o [i \in 1..Len(urls) |->
                 [type |-> "paragraph", content |-> urls[i], link |-> urls[i]]]

\* ExportWorker._export_to_notion: the arguments of notion.pages.create
GuiPage(m) ==
    LET text == TextOf(m)
    IN  [properties |-> Properties(text, GetMessageType(m)),
         children |-> Paragraphs(text)]

\* create_notion_page: the arguments of notion.pages.create
CliPage(m) ==
    LET text == TextOf(m)
    IN  [properties |-> Properties(text, CliGetMessageType(m)),
         children |-> Paragraphs(text) \o Callouts(m)
                          \o LinkBlocks(ExtractUrls(text))]

\* The texts the builders are called with: texts padded with digits up to the
\* lengths around the title limit and around each multiple of the chunk size,
\* texts of several hashtags, and texts put together from a few tokens.
DigitSeq == <<"0", "1", "2", "3", "4", "5", "6", "7", "8", "9">>
PadTo(prefix, n) ==
    [i \in 1..n |-> IF i <= Len(prefix) THEN prefix[i]
                    ELSE DigitSeq[(i % 10) + 1]]
Prefixes == {<<>>, Http \o <<"a", " ">>, <<"#", "a", " ">>}
ExampleLengths == {90, 4200}
BodyLengths ==
    (0..(TitleLimit + LenMargin))
      \cup UNION {((k * ChunkSize - LenMargin)..(k * ChunkSize + LenMargin)) :
                    k \in 1..MaxChunks}
      \cup ExampleLengths
PaddedTexts == {PadTo(p, n) : p \in Prefixes, n \in BodyLengths}

RECURSIVE Flatten(_)
Flatten(ss) == IF ss = <<>> THEN <<>> ELSE Head(ss) \o Flatten(Tail(ss))
TagToken(i) ==
    <<"#", IF i % 2 = 1 THEN "A" ELSE "a", DigitSeq[i + 1], " ">>
TaggedTexts ==
    {Flatten([i \in 1..n |-> TagToken(i)]) : n \in 0..MaxTagCount}
Tokens == {Http, Https, <<"a">>, <<" ">>, <<"~">>, <<"#", "B">>}
TokenTexts ==
    {Flatten(ts) : ts \in UNION {[1..n -> Tokens] : n \in 0..MaxTokens}}

RecordMessages ==
    {[attach |-> a, text |-> IF a = {} THEN t ELSE <<>>,
      caption |-> IF a = {} THEN <<>> ELSE t] :
        a \in {{}, {"photo"}, {"poll", "video"}},
        t \in PaddedTexts \cup TaggedTexts \cup TokenTexts}

RecordInit ==
    /\ WindowIdle
    /\ arg_message \in RecordMessages
    /\ arg_filters = [hashtags |-> <<>>, types |-> {}, has_media |-> FALSE,
                      no_media |-> FALSE, has_url |-> FALSE]
    /\ result = [returned |-> FALSE, gui |-> None, cli |-> None]

\* Both builders are called with the message.
BuildPage ==
    /\ ~result.returned
    /\ result' = [returned |-> TRUE,
                  gui |-> GuiPage(arg_message),
                  cli |-> CliPage(arg_message)]
    /\ UNCHANGED <<inputs, workerv, winv, arg_message, arg_filters>>

RecordNext == BuildPage

RecordSpec == RecordInit /\ [][RecordNext]_vars

\* has_url on its own: the filter functions are called with the texts put
\* together from tokens, with and without the setting.
UrlMessages ==
    {[attach |-> a, text |-> IF a = {} THEN t ELSE <<>>,
      caption |-> IF a = {} THEN <<>> ELSE t] :
        a \in {{}, {"photo"}}, t \in TokenTexts}
UrlFilters ==
    [hashtags : {<<>>}, types : {{}}, has_media : BOOLEAN, no_media : {FALSE},
     has_url : BOOLEAN]

UrlInit ==
    /\ WindowIdle
    /\ arg_message \in UrlMessages
    /\ arg_filters \in UrlFilters
    /\ result = [returned |-> FALSE, gui |-> FALSE, cli |-> FALSE]

UrlSpec == UrlInit /\ [][MatchNext]_vars

\* ================================================================== claims
Sum(p) == p[1] + p[2]
Indices(n) == [i \in 1..n |-> i]
InSeq(x, s) == \E i \in 1..Len(s) : s[i] = x
Notion == format \notin {"json", "csv", "markdown"}

\* reverse(take(limit, filter(drop(skip, source)))) over the items' positions
Passing(src, f) ==
    SelectSeq(Drop(f.skip, Indices(Len(src))),
              LAMBDA i : MatchesFilters(src[i], f))
Kept(src, f) ==
    IF f.limit = 0 THEN Passing(src, f) ELSE Take(f.limit, Passing(src, f))
ExpectedExport(src, f) == Reverse(Kept(src, f))

ScanEnded ==
    pc \in {"after_scan", "n_loop", "n_create", "n_create_ret", "file_write",
            "emit_finished", "cli_loop", "cli_create_ret"}
ExampleRun ==
    /\ source = ExampleSource
    /\ filters = [types |-> {"Text"}, has_media |-> FALSE, no_media |-> FALSE,
                  limit |-> 2, skip |-> 1]

\* C1: nothing is pulled from the source and nothing is written to a sink
\* unless authentication reached Authenticated; a run whose authentication
\* ended Cancelled or Failed ends with an error event and with
\* matched = success = failed = 0.
C1_AuthGate ==
    /\ (pulled > 0 \/ srcFailed \/ attempts # <<>> \/ written # <<>>
        \/ pc \in {"pull", "chk_cancel", "process", "cli_process"} \/ ScanEnded)
         => authState = "Authenticated"
    /\ authState \in {"Cancelled", "Failed"} =>
         /\ messages = <<>> /\ success_count = 0 /\ failed_count = 0
         /\ finishedEvents = 0
         /\ pc \in {"cancel_disconnect", "auth_except", "done"}
    /\ pc = "done" =>
         /\ \/ authState \in {"Authenticated", "Cancelled", "Failed"}
            \/ entry = "cli" /\ save /\ authState = "Disconnected"
         /\ authState # "Authenticated" => errorEvents >= 1

C1_Witness ==
    /\ pc = "done" /\ authState = "Cancelled" /\ errorEvents >= 1
    /\ cancelled /\ codeRequests = 1 /\ source # <<>>

\* C2: the items handed to the sink are
\* reverse(take(limit, filter(drop(skip, source)))): the matched buffer after
\* a scan that ended is take(limit, filter(drop(skip, source))), every write
\* is made in the reverse of that order, and a run that exported to the end
\* handed over exactly that sequence; [T,T,P,T,T] with skip 1, types [Text],
\* limit 2 exports the 4th and then the 2nd pulled item.
C2_PipelineOutput ==
    /\ ScanEnded => messages = Kept(source, filters)
    /\ IsPrefix(attempts, ExpectedExport(source, filters))
    /\ (pc = "done" /\ finishedEvents = 1 /\ ~cancelled)
         => attempts = ExpectedExport(source, filters)
    /\ (ExampleRun /\ pc = "done" /\ finishedEvents = 1)
         => (attempts = <<4, 2>> /\ messages = <<2, 4>>)

C2_Witness ==
    /\ ExampleRun /\ entry = "cli" /\ pc = "done" /\ finishedEvents = 1
    /\ written = <<4, 2>>

\* C3: with limit = L set, the matched buffer never holds more than L items.
C3_LimitBound == filters.limit # 0 => Len(messages) <= filters.limit

C3_Witness ==
    /\ filters.limit = 2 /\ Len(messages) = 2
    /\ \E i \in (pulled + 1)..Len(source) : MatchesFilters(source[i], filters)

\* C4: once the L-th match is in the buffer nothing further is pulled: in
\* every state in which the limit is reached, the last item pulled is the
\* L-th match and the run is past the scanning loop.
C4_StopAtLimit ==
    LimitReached(filters, messages) =>
        /\ Len(messages) = filters.limit
        /\ pulled = messages[Len(messages)]
        /\ pc \notin {"pull", "chk_cancel", "process", "cli_process"}

C4_Witness ==
    /\ LimitReached(filters, messages) /\ pc = "done" /\ entry = "gui"
    /\ pulled < Len(source) /\ finishedEvents = 1

\* C5: skip = N discards exactly the first N pulled items untested, whatever
\* their filter outcome; they count as scanned, and the (N+1)-th pulled item
\* is the first one filter-tested.
C5_Skip ==
    /\ skipped = (IF total_scanned < filters.skip THEN total_scanned
                  ELSE filters.skip)
    /\ Len(tested) = total_scanned - skipped
    /\ \A j \in 1..Len(tested) : tested[j] = filters.skip + j
    /\ \A j \in 1..Len(messages) : messages[j] > filters.skip

C5_Witness ==
    /\ filters.skip = 2 /\ Len(source) >= 3 /\ total_scanned = 3
    /\ MatchesFilters(source[1], filters) /\ ~MatchesFilters(source[2], filters)
    /\ tested = <<3>>

\* C6: sink writes are made one at a time, oldest first: the i-th write is
\* for the (k-i+1)-th item of the matched buffer, the records the sink holds
\* keep that order, and a write begins only after the previous one ended.
C6_SequentialChronological ==
    /\ \A i \in 1..Len(attempts) : attempts[i] = messages[Len(messages) - i + 1]
    /\ \A i \in 1..Len(written) : InSeq(written[i], attempts)
    /\ \A i \in 1..(Len(written) - 1) : written[i] > written[i + 1]
    /\ Notion =>
         Len(attempts) = success_count + failed_count
                         + (IF inflight # 0 THEN 1 ELSE 0)
    /\ inflight # 0 => inflight = attempts[Len(attempts)]
    /\ (~Notion /\ pc = "emit_finished") => written = Reverse(messages)

C6_Witness ==
    /\ entry = "gui" /\ format = "notion" /\ Len(messages) = 2
    /\ written = <<messages[2], messages[1]>> /\ pc = "done"

\* C7: in the Notion sink a failed create-call is counted as failed and the
\* run goes on: success counts the calls that succeeded, failed the calls
\* that failed, no error event is raised, and an export that ends without
\* cancellation has attempted every matched item, success + failed = matched.
C7_FailureIsolation ==
    Notion =>
        /\ success_count = Len(written)
        /\ failed_count = Len(attempts) - Len(written)
                          - (IF inflight # 0 THEN 1 ELSE 0)
        /\ attempts # <<>> => errorEvents = 0
        /\ (pc = "done" /\ attempts # <<>> /\ ~cancelled) =>
             /\ Len(attempts) = Len(messages)
             /\ finishedEvents = 1
             /\ finishedArgs = <<success_count, failed_count>>
             /\ success_count + failed_count = Len(messages)

C7_Witness ==
    /\ Notion /\ entry = "gui" /\ pc = "done" /\ ~cancelled
    /\ Len(messages) = 2 /\ attempts = <<messages[2], messages[1]>>
    /\ written = <<messages[1]>> /\ finishedArgs = <<1, 1>>

\* C8 (as stated): cancellation set after j of k items were processed by the
\* Notion sink ends the run with no further item processed and
\* success + failed = j.
C8_Original ==
    (cancelSnap.phase \in {"check", "write"}
       /\ pc = "done") =>
        /\ finishedEvents = 1
        /\ Sum(finishedArgs) = cancelSnap.processed
        /\ Len(attempts) = cancelSnap.processed

\* C8 (amended): cancellation set after j of k items were processed ends the
\* run with at most one further item processed, the one whose cancellation
\* check had already passed; written records stay; the run ends with a
\* finished event whose success + failed is j, or j + 1 when that one item
\* was already past its check.
C8_CancelDuringExport ==
    (cancelSnap.phase \in {"check", "write"}) =>
        /\ Len(attempts) <= cancelSnap.processed + 1
        /\ cancelSnap.phase = "check" => Len(attempts) = cancelSnap.processed
        /\ Len(written) = success_count
        /\ pc = "done" =>
             /\ finishedEvents = 1 /\ errorEvents = 0
             /\ finishedArgs = <<success_count, failed_count>>
             /\ Sum(finishedArgs) = Len(attempts)
             /\ Sum(finishedArgs) = cancelSnap.processed
                  + (IF cancelSnap.phase = "write" THEN 1 ELSE 0)

C8_Witness ==
    /\ cancelSnap.phase = "check" /\ pc = "done"
    /\ cancelSnap.processed = 1 /\ Len(messages) = 2 /\ Len(written) = 1
    /\ finishedArgs = <<1, 0>>

\* C9: every run of the worker that authenticated and met no source error and
\* no bulk write error has emitted finished by the time it ends.
C9_AlwaysFinished ==
    (entry = "gui" /\ pc = "done" /\ authState = "Authenticated"
       /\ errorEvents = 0) => finishedEvents = 1

\* C10 (as stated): once the cancellation flag is set during scanning no
\* further item is pulled.
C10_Original ==
    (cancelSnap.phase = "scan") =>
        pulled = cancelSnap.pulled

\* C10 (amended): cancellation is observed after the next item is pulled and
\* before it is processed: once the flag is set during scanning at most one
\* further item is pulled, and that item is neither counted as scanned nor
\* filter-tested nor matched.
C10_CancelDuringScan ==
    (cancelSnap.phase = "scan") =>
        /\ pulled <= cancelSnap.pulled + 1
        /\ total_scanned <= cancelSnap.pulled
        /\ \A j \in 1..Len(tested) : tested[j] <= cancelSnap.pulled
        /\ \A j \in 1..Len(messages) : messages[j] <= cancelSnap.pulled

C10_Witness ==
    /\ cancelSnap.phase = "scan" /\ pc = "done"
    /\ pulled = cancelSnap.pulled + 1 /\ total_scanned = cancelSnap.pulled
    /\ cancelSnap.pulled >= 1

\* C11: cancellation set after scanning collected the matches and before the
\* export step begins leaves the selected sink without any record and the
\* success count at 0, for every sink kind.
C11_CancelBeforeExport ==
    (entry = "gui" /\ cancelSnap.phase = "pre_export") =>
        /\ attempts = <<>>
        /\ written = <<>>
        /\ success_count = 0
        /\ finishedEvents = 1 => finishedArgs = <<0, 0>>

\* The Notion sink alone honours C11: its loop tests the flag before the
\* first write.
C11_NotionOnly ==
    (entry = "gui" /\ Notion /\ cancelSnap.phase = "pre_export") =>
        /\ attempts = <<>>
        /\ written = <<>>
        /\ success_count = 0
        /\ finishedEvents = 1 => finishedArgs = <<0, 0>>

\* C12: when a pull from the source raises during scanning the run is over:
\* nothing matched so far is handed to a sink, no record is written, exactly
\* one error event is emitted and no finished event.
C12_SourceErrorAborts ==
    srcFailed =>
        /\ pc = "done"
        /\ attempts = <<>> /\ written = <<>> /\ inflight = 0
        /\ errorEvents = 1
        /\ finishedEvents = 0

C12_Witness ==
    /\ entry = "gui" /\ srcFailed /\ pc = "done"
    /\ Len(messages) >= 1 /\ pulled >= 1

\* C13: a file sink (JSON, CSV, Markdown) reports all or nothing: a bulk write
\* that succeeds ends in finished(matched count, 0); one that fails ends in
\* one error event, no finished event, and no failure count.
C13_FileSinkOutcome ==
    (entry = "gui" /\ ~Notion) =>
        /\ failed_count = 0
        /\ (finishedEvents = 1 /\ attempts # <<>>) =>
             /\ finishedArgs = <<Len(messages), 0>>
             /\ written = Reverse(messages)
             /\ errorEvents = 0
        /\ (pc = "done" /\ attempts # <<>> /\ finishedEvents = 0) =>
             /\ errorEvents = 1
             /\ success_count = 0
        /\ (pc = "done" /\ attempts # <<>>) =>
             finishedEvents + errorEvents = 1

C13_Witness ==
    /\ entry = "gui" /\ ~Notion /\ pc = "done"
    /\ errorEvents = 1 /\ finishedEvents = 0
    /\ Len(messages) = 2 /\ Len(written) = 1

\* C15 (as stated): after a supplied code's sign-in fails, a password request
\* is emitted (and AwaitingPassword entered) exactly when the failure is the
\* provider's second-factor requirement.
C15_Original ==
    (sign_in_error # NoError) =>
        (pwdRequests = 1 <=> sign_in_error.cause = "SESSION_PASSWORD_NEEDED")

\* C15 (amended): after a supplied code's sign-in fails, the run enters
\* AwaitingPassword and emits a password request exactly when the failure's
\* description contains second-factor wording, which the provider's
\* second-factor requirement does and other failures may; a failure without
\* that wording ends the run in Failed with an error event, no password
\* request and no scanning.
C15_SecondFactorRouting ==
    (sign_in_error # NoError) =>
        LET worded == sign_in_error.wording \cap SecondFactorWording # {}
        IN  /\ auth_code \notin {None, ""}
            /\ sign_in_error.cause = "SESSION_PASSWORD_NEEDED" => worded
            /\ worded <=> pwdRequests = 1
            /\ worded <=> pwdDialog # "none"
            /\ (worded /\ pc = "wait_pwd") => authState = "AwaitingPassword"
            /\ ~worded =>
                 /\ pc \in {"auth_except", "done"}
                 /\ pulled = 0 /\ attempts = <<>>
                 /\ pc = "done" =>
                      /\ authState = "Failed"
                      /\ errorEvents = 1 /\ finishedEvents = 0

C15_Witness ==
    /\ sign_in_error.cause = "PHONE_PASSWORD_FLOOD"
    /\ pc = "wait_pwd" /\ authState = "AwaitingPassword" /\ pwdRequests = 1

\* C14: a cancellation flag set while the worker waits for the confirmation
\* code or for the second-factor password ends the wait: the run goes on to
\* end in Cancelled with an error event emitted; from the flag on it takes no
\* step into sign-in, password check or scanning, and a cancelled handshake
\* has pulled nothing.
C14_CancelEndsWait ==
    /\ (cancelled /\ pc \in {"wait_code", "wait_pwd"})
         ~> (pc = "done" /\ authState = "Cancelled" /\ errorEvents >= 1)
    /\ [][(cancelled /\ pc \in {"wait_code", "check_code",
                                "wait_pwd", "check_pwd"})
            => pc' \notin {"sign_in", "check_password", "pull"}]_vars
    /\ [](authState = "Cancelled" =>
            /\ pulled = 0 /\ total_scanned = 0 /\ attempts = <<>>
            /\ pc \in {"cancel_disconnect", "auth_except", "done"})

C14_Witness ==
    /\ cancelSnap.phase = "other" /\ pwdDialog = "closed"
    /\ auth_password = None
    /\ pc = "done" /\ authState = "Cancelled" /\ errorEvents = 1

\* C17: a run started with a required credential or setting missing attempts
\* no connection to the provider, pulls no item and writes no record.
C17_ConfigValidated ==
    (config # "complete") =>
        /\ authState = "Disconnected"
        /\ pulled = 0
        /\ attempts = <<>> /\ written = <<>>

\* C16: at no moment are two ExportWorker runs both still executing.
C16_OneExportAtATime ==
    (IF Running THEN 1 ELSE 0) + orphans <= 1

\* C19: a FilterSpec with both has_media and no_media set is accepted and
\* passes no message of any kind: the matched buffer stays empty, a set limit
\* is never reached, and scanning ends only with the whole source pulled and
\* every unskipped item tested.
C19_BothFlagsDeadEnd ==
    (filters.has_media /\ filters.no_media) =>
        /\ \A k \in AllKinds : ~MatchesFilters(k, filters)
        /\ messages = <<>>
        /\ ~LimitReached(filters, messages)
        /\ attempts = <<>> /\ written = <<>>
        /\ ScanEnded =>
             /\ pulled = Len(source)
             /\ Len(tested) = Len(Drop(filters.skip, source))
        /\ (pc = "done" /\ pulled < Len(source)) =>
             (cancelled \/ srcFailed \/ authState # "Authenticated")
        /\ finishedEvents = 1 => finishedArgs = <<0, 0>>

C19_Witness ==
    /\ filters.has_media /\ filters.no_media /\ filters.limit = 1
    /\ entry = "gui" /\ pc = "done" /\ finishedEvents = 1
    /\ Len(source) = 3 /\ pulled = 3 /\ Len(tested) = 3

\* C18: called with only no_media set, both filter functions pass a message
\* exactly when its kind is Text; called with only has_media set, exactly
\* when its kind is neither Text nor Other.
OnlyFlags(f, has, no) ==
    /\ f.hashtags = <<>> /\ f.types = {}
    /\ f.has_media = has /\ f.no_media = no
C18_MediaFlags ==
    result.returned =>
        LET kind == GetMessageType(arg_message)
        IN  /\ OnlyFlags(arg_filters, FALSE, TRUE) =>
                 /\ result.gui <=> kind = "Text"
                 /\ result.cli <=> kind = "Text"
            /\ OnlyFlags(arg_filters, TRUE, FALSE) =>
                 /\ result.gui <=> kind \notin {"Text", "Other"}
                 /\ result.cli <=> kind \notin {"Text", "Other"}

C18_Witness ==
    /\ result.returned /\ OnlyFlags(arg_filters, TRUE, FALSE)
    /\ GetMessageType(arg_message) = "Other"
    /\ ~result.gui /\ ~result.cli

\* The hashtags of a text, read off the text: the longest run of word
\* characters behind each '#'.
TagsIn(str) ==
    {SubSeq(str, i + 1, e) : <<i, e>> \in
       {p \in (1..Len(str)) \X (1..Len(str)) :
          /\ str[p[1]] = "#" /\ p[1] < p[2]
          /\ \A j \in (p[1] + 1)..p[2] : str[j] \in WordChars
          /\ p[2] = Len(str) \/ str[p[2] + 1] \notin WordChars}}
Tag(ch) == <<ch>>

\* C20: called with required hashtags only, both filter functions pass a
\* message exactly when some required hashtag and some hashtag of its text
\* are equal after lowercasing both; a text tagged a passes the required
\* list (a, b) and a text tagged c does not.
C20_HashtagAnyOf ==
    (result.returned /\ arg_filters.hashtags # <<>>
       /\ arg_filters.types = {}
       /\ ~arg_filters.has_media /\ ~arg_filters.no_media) =>
        LET str == TextOf(arg_message)
            required == arg_filters.hashtags
            expected == \E i \in 1..Len(required), t \in TagsIn(str) :
                           Lower(required[i]) = Lower(t)
        IN  /\ result.gui <=> expected
            /\ result.cli <=> expected
            /\ required = <<Tag("a"), Tag("b")>> =>
                 /\ str = <<"#", "a">> => result.gui /\ result.cli
                 /\ str = <<"#", "c">> => ~result.gui /\ ~result.cli

C20_Witness ==
    /\ result.returned
    /\ arg_filters = [hashtags |-> <<Tag("a"), Tag("b")>>, types |-> {},
                      has_media |-> FALSE, no_media |-> FALSE,
                      has_url |-> FALSE]
    /\ TextOf(arg_message) = <<"c", "#", "A">>
    /\ result.gui /\ result.cli

\* The order of precedence as the kinds are listed: the field and its kind.
Precedence ==
    <<<<"photo", "Photo">>, <<"video", "Video">>, <<"document", "Document">>,
      <<"audio", "Audio">>, <<"voice", "Voice">>, <<"sticker", "Sticker">>,
      <<"animation", "GIF">>, <<"poll", "Poll">>, <<"location", "Location">>,
      <<"contact", "Contact">>>>

\* C21: for every combination of attachment fields both classifiers return
\* one kind: that of the first field present in the order Photo, Video,
\* Document, Audio, Voice, Sticker, GIF, Poll, Location, Contact; without any
\* attachment Text when message.text is non-empty, else Other.  A photo with
\* a caption is a Photo.
C21_KindPrecedence ==
    result.returned =>
        LET m == arg_message
            present == {i \in 1..Len(Precedence) : Precedence[i][1] \in m.attach}
            expected ==
                IF present # {}
                THEN Precedence[CHOOSE i \in present :
                                  \A j \in present : i <= j][2]
                ELSE IF m.text # <<>> THEN "Text" ELSE "Other"
        IN  /\ result.gui = expected
            /\ result.cli = expected
            /\ result.gui \in AllKinds
            /\ ("photo" \in m.attach /\ m.caption # <<>>) =>
                 result.gui = "Photo" /\ result.cli = "Photo"

C21_Witness ==
    /\ result.returned
    /\ arg_message = [attach |-> {"photo", "video", "contact"},
                      text |-> <<"a">>, caption |-> <<"a">>]
    /\ result.gui = "Photo" /\ result.cli = "Photo"


\* Claim helpers for the page builders.
CeilDiv(n, d) == (n + d - 1) \div d
IsBody(b) == b.type = "paragraph" /\ "link" \notin DOMAIN b
Body(page) == SelectSeq(page.children, IsBody)
Contents(blocks) == [i \in 1..Len(blocks) |-> blocks[i].content]
Lengths(blocks) == [i \in 1..Len(blocks) |-> Len(blocks[i].content)]
Chunked(text, body) ==
    LET n == Len(text)
    IN  /\ n <= TitleLimit => body = <<>>
        /\ n > TitleLimit =>
             /\ Len(body) = CeilDiv(n, ChunkSize)
             /\ \A i \in 1..Len(body) :
                  /\ Len(body[i].content) <= ChunkSize
                  /\ i < Len(body) => Len(body[i].content) = ChunkSize
             /\ Flatten(Contents(body)) = text
        /\ n = 4200 => Lengths(body) = <<2000, 2000, 200>>
        /\ n = 90 => body = <<>>

\* C22: for a text of length n the record carries no body block when
\* n <= 100 and otherwise exactly ceil(n/2000) paragraph blocks of the text,
\* each at most 2000 long, all but the last exactly 2000 long, whose
\* concatenation is the text; 4200 gives [2000, 2000, 200] and 90 gives none.
\* The interactive program attaches nothing else; the batch program puts the
\* body blocks first.
C22_BodyChunking ==
    result.returned =>
      /\ Chunked(TextOf(arg_message), Body(result.gui))
      /\ Chunked(TextOf(arg_message), Body(result.cli))
      /\ result.gui.children = Body(result.gui)
      /\ IsPrefix(Body(result.cli), result.cli.children)
C22_Witness ==
    /\ result.returned
    /\ Len(TextOf(arg_message)) = 4200
    /\ Lengths(Body(result.cli)) = <<2000, 2000, 200>>
    /\ Len(result.cli.children) > 3


Min(a, b) == IF a < b THEN a ELSE b
Shaped(text, kind, props) ==
    LET n == Len(text)
        hashtags == ExtractHashtags(text)
        urls == ExtractUrls(text)
    IN  /\ props.Type = kind
        /\ n = 0 => props.Name = <<kind, " message">>
        /\ (0 < n /\ n <= 100) => props.Name = text
        /\ n > 100 => props.Name = SubSeq(text, 1, 100) \o <<".", ".", ".">>
        /\ "Tags" \in DOMAIN props <=> Len(hashtags) >= 1
        /\ "Tags" \in DOMAIN props =>
             props.Tags = SubSeq(hashtags, 1, Min(5, Len(hashtags)))
        /\ "URL" \in DOMAIN props <=> Len(urls) >= 1
        /\ "URL" \in DOMAIN props => props.URL = urls[1]
        /\ \A k \in 0..MaxTagCount :
             text = Flatten([i \in 1..k |-> TagToken(i)]) =>
               hashtags = [i \in 1..k |-> SubSeq(TagToken(i), 2, 3)]

\* C24: the record's title is the text when it has at most 100 characters,
\* its first 100 characters and "..." when it is longer, "{kind} message"
\* when it is empty; Tags is there exactly when a hashtag is extracted and
\* holds the first min(5, n) of them in their order and case; URL is there
\* exactly when a URL is extracted and is the first one.
C24_RecordShape ==
    result.returned =>
      /\ Shaped(TextOf(arg_message), GetMessageType(arg_message),
                result.gui.properties)
      /\ Shaped(TextOf(arg_message), CliGetMessageType(arg_message),
                result.cli.properties)
C24_Witness ==
    /\ result.returned
    /\ Len(ExtractHashtags(TextOf(arg_message))) > 5
    /\ result.gui.properties.Tags
         = <<<<"A", "1">>, <<"a", "2">>, <<"A", "3">>, <<"a", "4">>,
             <<"A", "5">>>>
    /\ result.cli.properties.Tags = result.gui.properties.Tags


\* A run of the interactive program into the JSON or the CSV sink has ended
\* with its finished event.
FileExportFinished ==
    /\ entry = "gui"
    /\ format \in {"json", "csv"}
    /\ pc = "done"
    /\ finishedEvents = 1 /\ errorEvents = 0

\* C23 as stated: for every N the finished export leaves a file with one
\* record per matched message, oldest first, behind the CSV header if any.
C23_Original ==
    FileExportFinished =>
      /\ output = [created |-> TRUE, header |-> HeaderOf(format)]
      /\ written = Reverse(messages)

\* C23: a finished export of N >= 1 matched messages to the JSON or the CSV
\* sink leaves a file with exactly one record per matched message, oldest
\* first (the CSV one behind one header row); with N = 0 no file is written.
C23_FileRecords ==
    FileExportFinished =>
      IF messages = <<>>
      THEN output = NoFile /\ written = <<>>
      ELSE /\ output = [created |-> TRUE, header |-> HeaderOf(format)]
           /\ Len(written) = Len(messages)
           /\ \A i \in 1..Len(written) :
                written[i] = messages[Len(messages) + 1 - i]
           /\ \A i \in 1..(Len(written) - 1) : written[i] > written[i + 1]
C23_Witness ==
    /\ FileExportFinished
    /\ format = "csv"
    /\ Len(messages) = 2
    /\ output.header = "row"
    /\ written = <<messages[2], messages[1]>>


\* C25: in every run of the interactive program the handshake follows its
\* state machine: the code request is emitted only by the step in which
\* send_code returned, which is entered only from a connection check that
\* reported not authorized; sign-in is attempted only after the code request;
\* the password request is emitted only by a sign-in attempt that failed; each
\* request is emitted at most once; and Authenticated is entered only from
\* the connection check, a successful sign-in or an accepted password.
C25_Handshake ==
    [][entry = "gui" =>
         /\ (pc' = "send_code" /\ pc # "send_code") =>
              (pc = "connect" /\ authState' = "Disconnected"
                 /\ codeRequests' = 0)
         /\ codeRequests' # codeRequests =>
              /\ pc = "send_code" /\ pc' = "wait_code"
              /\ authState = "Disconnected" /\ authState' = "AwaitingCode"
              /\ codeRequests = 0 /\ codeRequests' = 1
         /\ pc = "sign_in" =>
              (codeRequests = 1 /\ auth_code # None
                 /\ authState = "SigningIn")
         /\ pwdRequests' # pwdRequests =>
              /\ pc = "sign_in" /\ pc' = "wait_pwd"
              /\ sign_in_error' # NoError
              /\ authState' = "AwaitingPassword"
              /\ pwdRequests = 0 /\ pwdRequests' = 1
         /\ (authState' = "Authenticated" /\ authState # "Authenticated") =>
              /\ pc \in {"connect", "sign_in", "check_password"}
              /\ pc' = "pull"
              /\ pc = "check_password" =>
                   (pwdRequests = 1 /\ auth_password # None)
         /\ authState = "Authenticated" => authState' = "Authenticated"
         /\ pc' \in {"pull", "chk_cancel", "process", "after_scan"} =>
              authState' = "Authenticated"]_vars
C25_Witness ==
    /\ entry = "gui"
    /\ authState = "Authenticated"
    /\ codeRequests = 1 /\ pwdRequests = 1
    /\ pc = "pull"


\* C26: with has_url set, a message passes the filter exactly when URL
\* extraction returns at least one URL for its text; no message passes
\* has_url and has an empty list of extracted URLs.
C26_HasUrlIffExtracted ==
    (result.returned /\ arg_filters.has_url /\ ~arg_filters.has_media) =>
      /\ result.gui <=> ExtractUrls(TextOf(arg_message)) # <<>>
      /\ result.cli <=> ExtractUrls(TextOf(arg_message)) # <<>>

\* The batch program alone keeps C26: its filter calls extract_urls itself.
C26_BatchOnly ==
    (result.returned /\ arg_filters.has_url /\ ~arg_filters.has_media) =>
      (result.cli <=> ExtractUrls(TextOf(arg_message)) # <<>>)


\* C27: during scanning a progress event with the scanned and the matched
\* count is emitted every time the scanned count reaches a multiple of the
\* cadence, also on an item discarded by skip and on the item that completes
\* the limit: between two items there are as many events as multiples of the
\* cadence reached, the i-th carrying the scanned count i * cadence.
C27_ProgressEveryCadence ==
    pc \in {"pull", "after_scan"} =>
      /\ Len(progress) = total_scanned \div Cadence
      /\ \A i \in 1..Len(progress) :
           /\ progress[i].label[1] = i * Cadence
           /\ progress[i].label[2] <= Len(messages)

\* What the scanning loops do keep: an event is emitted only at a multiple of
\* the cadence, carries the counts of that moment, and is left out exactly for
\* the items discarded by skip and the one that completes the limit.
C27_ProgressAtLoopEnd ==
    [][(pc \in {"process", "cli_process"} /\ pc' # pc) =>
         IF /\ total_scanned' % Cadence = 0
            /\ skipped' = skipped
            /\ pc' = "pull"
         THEN progress' = Append(progress,
                                 [processed |-> 0, total |-> 0,
                                  label |-> <<total_scanned', Len(messages')>>])
         ELSE progress' = progress]_vars


\* The progress events of the export step (those of scanning carry no total).
ExportEvents == SelectSeq(progress, LAMBDA e : e.total # 0)

\* C28: during a Remote Database export of the interactive program one
\* progress event is emitted per processed item, after its write attempt,
\* failed or not: the processed values are 1, 2, ..., j without gaps, the
\* total is the matched count throughout and processed never exceeds it.
C28_ExportProgress ==
    (entry = "gui" /\ Notion) =>
      /\ Len(ExportEvents) = success_count + failed_count
      /\ Len(ExportEvents) = Len(attempts) - (IF inflight # 0 THEN 1 ELSE 0)
      /\ \A i \in 1..Len(ExportEvents) :
           /\ ExportEvents[i].processed = i
           /\ ExportEvents[i].total = Len(messages)
           /\ ExportEvents[i].processed <= ExportEvents[i].total
C28_Witness ==
    /\ entry = "gui" /\ Notion
    /\ Len(ExportEvents) = 2
    /\ success_count = 1 /\ failed_count = 1
    /\ Len(messages) = 3
    /\ pc = "n_loop"


\* C29: in a dry run of the batch program nothing is changed: no Notion page
\* is created, no message is appended to the save file, and what the save
\* file held before is still there.
C29_DryRunNoChanges ==
    (entry = "cli" /\ dry_run) =>
      /\ attempts = <<>> /\ written = <<>>
      /\ save_file.appended = <<>>
      /\ save_file.kept

\* What a dry run does keep: no create-call and nothing appended.
C29_DryRunNoWrites ==
    (entry = "cli" /\ dry_run) =>
      /\ attempts = <<>> /\ written = <<>> /\ inflight = 0
      /\ save_file.appended = <<>> /\ save_errors = 0
      /\ confirm = "none"

\* C30: in the batch program, when confirmation is asked for (no --yes) and
\* the answer is anything but 'y' or 'Y', the run ends with no Notion page
\* created and no message appended to the save file; the export loop is
\* entered only with --yes or after an affirmative answer.
C30_Confirmation ==
    entry = "cli" =>
      /\ confirm # "none" => (~yes /\ ~dry_run /\ messages # <<>>)
      /\ confirm \notin {"none", "y", "Y"} =>
           /\ pc = "done"
           /\ attempts = <<>> /\ written = <<>> /\ inflight = 0
           /\ save_file.appended = <<>> /\ save_errors = 0
           /\ success_count = 0 /\ failed_count = 0
      /\ (pc \in {"cli_loop", "cli_create_ret"} \/ attempts # <<>>) =>
           /\ yes \/ confirm \in {"y", "Y"}
           /\ ~dry_run
C30_Witness ==
    /\ entry = "cli" /\ save /\ ~yes
    /\ confirm = "yes"
    /\ pc = "done"
    /\ Len(messages) = 2
    /\ attempts = <<>> /\ save_file.appended = <<>>


\* C31: the window's side changes nothing of a running worker but the code
\* slot, the password slot and the cancellation flag, one of them per call
\* (an empty or dismissed dialog is a cancel()); the scanned count, the matched
\* buffer, the counters, the sinks and the events are the worker's alone; and
\* the cancellation flag, once set, stays set for the rest of the run.
C31_CollaboratorFrame ==
    [][entry = "gui" =>
         /\ cancelled => cancelled'
         /\ pc' = pc =>
              /\ UNCHANGED <<scanv, expv, evv, output, progress, save_file,
                             save_errors, confirm, authState, sign_in_error,
                             codeRequests, pwdRequests>>
              /\ cancelled' # cancelled =>
                   UNCHANGED <<auth_code, auth_password>>
              /\ auth_code' # auth_code =>
                   UNCHANGED <<cancelled, auth_password>>
              /\ auth_password' # auth_password =>
                   UNCHANGED <<cancelled, auth_code>>
         /\ pc' # pc => UNCHANGED <<cancelled, auth_code, auth_password>>]_vars
C31_Witness ==
    /\ entry = "gui"
    /\ auth_code = "12345" /\ auth_password = "secret"
    /\ cancelled /\ cancelSnap.phase = "scan"
    /\ total_scanned = 1 /\ Len(messages) = 1


\* C32: a run of the worker emits at most one terminal event: never finished
\* and error both, and neither of them twice.
C32_OneTerminalEvent ==
    entry = "gui" => errorEvents + finishedEvents <= 1

\* What does hold: finished is emitted at most once and never next to an
\* error, and a second error is emitted only behind a cancelled handshake
\* whose disconnect raised.
C32_SecondErrorOnlyAfterCancelledAuth ==
    entry = "gui" =>
      /\ finishedEvents <= 1
      /\ finishedEvents = 1 => errorEvents = 0
      /\ errorEvents <= 2
      /\ errorEvents = 2 => (authState = "Cancelled" /\ pulled = 0)


\* C34: every run of the worker that tried to connect tries to disconnect
\* before it ends, on every path, and a disconnect that raises neither
\* replaces nor adds a terminal event: a run that has tried to disconnect has
\* at most the one terminal event of its path.
C34_DisconnectAlways ==
    entry = "gui" =>
      /\ pc = "done" => disconnects >= 1
      /\ disconnects >= 1 => errorEvents + finishedEvents <= 1

\* What does hold: the disconnect is tried on every path to the end, once,
\* and a second time only where the one of a cancelled handshake raised.
C34_DisconnectOnEveryPath ==
    entry = "gui" =>
      /\ pc = "done" => disconnects \in {1, 2}
      /\ pc # "done" => disconnects <= 1
      /\ disconnects = 2 => (authState = "Cancelled" /\ errorEvents = 2)
      /\ (disconnects >= 1 /\ authState # "Cancelled") =>
           (pc = "done" /\ errorEvents + finishedEvents <= 1)


\* C33: once a run has ended and the window has handled every event the run
\* emitted, the window is ready again: Start enabled and Cancel disabled.
C33_ReadyAfterRun ==
    (runs >= 1 /\ pc = "done"
       /\ errorsHandled = errorEvents /\ finishedHandled = finishedEvents)
        => (start_enabled /\ ~cancel_enabled)

\* C33 (supporting): a window left with Start disabled by a run that ended
\* with every event handled stays that way at every later step.
C33_NeverReadyAgain ==
    [][(runs >= 1 /\ pc = "done" /\ ~start_enabled
          /\ errorsHandled = errorEvents /\ finishedHandled = finishedEvents)
         => (~start_enabled' /\ cancel_enabled')]_vars


\* C35: sign-in is entered only from the test after the code wait, with a
\* non-empty code and the cancellation flag clear; a dialog closed without a
\* non-empty code sets the flag; a test that finds the flag set, whether or
\* not a code was supplied, ends the handshake as cancelled with no sign-in;
\* the password wait and check_password follow the same rule.
C35_SignInGate ==
    [][entry = "gui" =>
         /\ (pc' = "sign_in" /\ pc # "sign_in") =>
              (pc = "check_code" /\ ~cancelled /\ ~cancelled'
                 /\ auth_code \notin {None, ""})
         /\ (pc' = "check_password" /\ pc # "check_password") =>
              (pc = "check_pwd" /\ ~cancelled /\ ~cancelled'
                 /\ auth_password \notin {None, ""})
         /\ (codeDialog = "pending" /\ codeDialog' = "closed") =>
              (auth_code' \notin {None, ""} \/ cancelled')
         /\ (pwdDialog = "pending" /\ pwdDialog' = "closed") =>
              (auth_password' \notin {None, ""} \/ cancelled')
         /\ (pc = "check_code" /\ pc' # pc /\ cancelled) =>
              (pc' = "cancel_disconnect" /\ authState' = "Cancelled")
         /\ (pc = "check_pwd" /\ pc' # pc /\ cancelled) =>
              (pc' = "cancel_disconnect" /\ authState' = "Cancelled")
         /\ (pc = "wait_code" /\ pc' # pc) =>
              (pc' = "check_code" /\ (auth_code # None \/ cancelled))
         /\ (pc = "wait_pwd" /\ pc' # pc) =>
              (pc' = "check_pwd" /\ (auth_password # None \/ cancelled))]_vars

\* A code was supplied, the flag was set before the worker's poll, and the
\* handshake ended as cancelled at the code test with no sign-in attempted.
C35_Witness ==
    /\ entry = "gui" /\ auth_code = "12345" /\ cancelled
    /\ authState = "Cancelled" /\ pc = "cancel_disconnect"
    /\ pwdRequests = 0 /\ sign_in_error = NoError
    /\ cancelSnap.phase = "other" /\ codeDialog = "closed"


\* The step that leaves the test of the matched buffer with the buffer empty.
EmptyScanEnds == pc = "after_scan" /\ pc' # pc /\ messages = <<>>

\* C36 as stated: in either program a scan that ends with an empty matched
\* buffer ends the run with no create-call, no output file created or
\* overwritten, and finished(0, 0).
C36_Original ==
    [][EmptyScanEnds =>
         /\ pc' = "done"
         /\ attempts' = <<>> /\ written' = <<>>
         /\ output' = NoFile /\ save_file'.kept
         /\ finishedEvents' = 1 /\ finishedArgs' = <<0, 0>>]_vars

\* C36: a scan that ends with an empty matched buffer ends the run at once
\* with no create-call and no file of any export format created.  The
\* interactive program emits finished(0, 0) and no error; the batch program
\* ends without its summary and without asking for confirmation, with nothing
\* appended to the save file, which --save has emptied when the run began.
C36_EmptyBufferNoSink ==
    [][/\ EmptyScanEnds =>
            /\ pc' = "done"
            /\ attempts' = <<>> /\ written' = <<>> /\ inflight' = 0
            /\ output' = NoFile
            /\ success_count' = 0 /\ failed_count' = 0
            /\ errorEvents' = errorEvents
            /\ entry = "gui" =>
                 (finishedEvents' = 1 /\ finishedArgs' = <<0, 0>>
                    /\ save_file'.kept)
            /\ entry = "cli" =>
                 /\ finishedEvents' = 0 /\ confirm' = "none"
                 /\ save_file' = save_file /\ save_file.appended = <<>>
                 /\ save_file.kept = ~save
                 /\ save_errors' = 0
       /\ pc = "done" => pc' = "done"]_vars

\* The interactive program scanned a source in which nothing matched, with a
\* file format chosen.
C36_Witness ==
    /\ entry = "gui" /\ format = "csv" /\ pc = "done"
    /\ pulled >= 1 /\ total_scanned >= 1 /\ messages = <<>>
    /\ finishedEvents = 1 /\ finishedArgs = <<0, 0>>
    /\ output = NoFile /\ attempts = <<>>


\* C37: in a batch run with --save every matched message taken up by the
\* export loop gets its create-call whether or not its save succeeded (the
\* create-calls made are a prefix of the matched messages oldest first, each
\* counted once as saved or as a save error); the save file holds the saved
\* messages oldest first; and the summary is printed with
\* success_count + failed_count = saved_count + save_errors = matched count.
C37_SaveFailureIsolated ==
    (entry = "cli" /\ save) =>
      /\ IsPrefix(attempts, Reverse(messages))
      /\ Len(save_file.appended) + save_errors = Len(attempts)
      /\ \A i \in 1..Len(save_file.appended) :
           \E j \in 1..Len(attempts) : attempts[j] = save_file.appended[i]
      /\ \A i \in 1..(Len(save_file.appended) - 1) :
           save_file.appended[i] > save_file.appended[i + 1]
      /\ success_count + failed_count + (IF inflight # 0 THEN 1 ELSE 0)
           = Len(attempts)
      /\ finishedEvents = 1 =>
           /\ attempts = Reverse(messages)
           /\ success_count + failed_count = Len(messages)
           /\ Len(save_file.appended) + save_errors = Len(messages)
           /\ finishedArgs = <<success_count, failed_count>>

\* The save of the oldest of two matched messages failed; its page and the
\* later message's page were still created and the later message was saved.
C37_Witness ==
    /\ entry = "cli" /\ save /\ pc = "done" /\ finishedEvents = 1
    /\ Len(messages) = 2
    /\ save_errors = 1
    /\ save_file.appended = <<messages[1]>>
    /\ attempts = <<messages[2], messages[1]>>
    /\ written = attempts


\* C38: the interactive and the batch program accept exactly the same
\* messages under the same filter settings.
C38_SamePipeline ==
    result.returned => (result.gui <=> result.cli)

\* C38 (supporting): the two filter functions differ on has_url alone.
C38_SameWithoutHasUrl ==
    (result.returned /\ ~arg_filters.has_url) => (result.gui <=> result.cli)
====
